---- MODULE Spec2Model ----
(***************************************************************************)
(* Hybrid legal retrieval: query analyzer, exact retriever, hybrid router  *)
(* and the ingestion chunk builder of the legal RAG repository.            *)
(*                                                                         *)
(* Strings of the program are kept as strings.  Python's None is the       *)
(* value NONE; Str models str().  A query is a sequence of phrases (the    *)
(* query text is the phrases joined by single spaces); the regular         *)
(* expressions of the analyzer are modelled by what they match on these    *)
(* phrases.  Confidence values are in hundredths (0.95 is 95).             *)
(***************************************************************************)
EXTENDS Integers, Sequences, FiniteSets, TLC

VARIABLES
    query,      \* the request's query: a sequence of phrases, or NonStr
    k,          \* the k argument as passed by the caller (0 stands for None)
    corpus,     \* the vector index content, in full-scan order
    pc,         \* position of the request / run
    analysis,   \* QueryAnalysis of the request (NoAnalysis before classification)
    docs,       \* result list of the request
    calls,      \* log of retriever calls made by the request, in order
    lines,      \* ingestion: the raw lines of the source pages
    parser,     \* ingestion: the local variables of extract_document_structure
    built,      \* ingestion: the documents the pipeline returned
    index,      \* the vector index during the request: "up", "flaky" or "down"
    pending,    \* a corpus update in flight: its documents and how many are added
    api,        \* the API process: startup, engine, the request and its response
    norm        \* a chapter id on its way through the normalization functions

vars == <<query, k, corpus, pc, analysis, docs, calls, lines, parser, built,
          index, pending, api, norm>>

\* the variables the retrieval and ingestion steps leave alone
envVars == <<index, pending, api, norm>>

----------------------------------------------------------------------------
(* Bounds *)

MaxQueryLen == 3      \* phrases per enumerated query
MaxDocs == 3          \* documents per enumerated corpus
MaxK == 2             \* largest k a caller passes (0 stands for the default)
MaxLines == 3         \* source lines per enumerated document
MaxTextLines == 4     \* lines of text per enumerated article
MaxGroupDocs == 5     \* chunks per enumerated chapter/section group
MaxBlocks == 4        \* headings (each with its title line) per enumerated document

(* Program constants *)

RETRIEVER_K_BASE == 20
RETRIEVER_K_RERANKED == 5
RETRIEVER_K_FINAL == 3
CHUNK_SIZE == 1500
MAX_TITLE_LEN == 200

NONE == "<None>"

----------------------------------------------------------------------------
(* Generic helpers *)

Min(a, b) == IF a < b THEN a ELSE b

Take(s, n) == IF n <= 0 THEN << >> ELSE SubSeq(s, 1, Min(n, Len(s)))

Range(s) == {s[j] : j \in 1..Len(s)}

Truthy(x) == x # NONE /\ x # ""

\* str(x)
Str(x) == IF x = NONE THEN "None" ELSE x

\* all sequences without repetition over the set S, of length at most n
RECURSIVE InjSeqs(_, _)
InjSeqs(S, n) ==
    IF n = 0 \/ S = {} THEN {<< >>}
    ELSE {<< >>} \cup UNION {{<<x>> \o t : t \in InjSeqs(S \ {x}, n - 1)} : x \in S}

\* all sequences over S of length at most n
RECURSIVE SeqsUpTo(_, _)
SeqsUpTo(S, n) ==
    IF n = 0 THEN {<< >>}
    ELSE LET shorter == SeqsUpTo(S, n - 1)
         IN  shorter \cup {Append(t, x) : t \in {u \in shorter : Len(u) = n - 1}, x \in S}

\* all orderings of the finite set S
Perms(S) == {p \in InjSeqs(S, Cardinality(S)) : Len(p) = Cardinality(S)}

----------------------------------------------------------------------------
(* Query text.  A phrase is [t, n, s, p]: t is the phrase's lower-case     *)
(* text up to its numbers, n/s/p the numbers and letter it carries.        *)
(*   "article" phrases have a form:                                        *)
(*     bare      "article 6"          dangling  "article 6."               *)
(*     dotsub    "article 6.1"        parsub    "article 6(1)"             *)
(*     dotfull   "article 6.1.a"      parfull   "article 6(1)(a)"          *)

Word(w) == [t |-> w, form |-> "", n |-> "", s |-> "", p |-> ""]
Chap(n) == [t |-> "chapter", form |-> "", n |-> n, s |-> "", p |-> ""]
Sec(n) == [t |-> "section", form |-> "", n |-> n, s |-> "", p |-> ""]
Rec(n) == [t |-> "recital", form |-> "", n |-> n, s |-> "", p |-> ""]
Art(n) == [t |-> "article", form |-> "bare", n |-> n, s |-> "", p |-> ""]
ArtDangling(n) == [t |-> "article", form |-> "dangling", n |-> n, s |-> "", p |-> ""]
ArtDotSub(n, s) == [t |-> "article", form |-> "dotsub", n |-> n, s |-> s, p |-> ""]
ArtParSub(n, s) == [t |-> "article", form |-> "parsub", n |-> n, s |-> s, p |-> ""]
ArtDotFull(n, s, p) == [t |-> "article", form |-> "dotfull", n |-> n, s |-> s, p |-> p]
ArtParFull(n, s, p) == [t |-> "article", form |-> "parfull", n |-> n, s |-> s, p |-> p]

\* a query argument that is not a string (None, a number, ...)
NonStr == <<Word("<not a str>")>>

IsStr(q) == q # NonStr

\* the keywords of the analyzer's lists that occur in one phrase's text
KeywordsIn(ph) ==
    CASE ph.t = "difference between" -> {"difference", "between"}
      [] ph.t = "what is" -> {"what is"}
      [] ph.t = "show" -> {"show"}
      [] ph.t = "which article" -> {"which article"}
      [] OTHER -> {}

\* the keywords that span two neighbouring phrases ("what is" + "section 3")
KeywordsAcross(a, b) ==
    IF a.t \in {"what is", "show"} /\ b.t \in {"section", "chapter"}
    THEN {a.t \o " " \o b.t} ELSE {}

\* every listed keyword k with `k in query_lower`
QueryKeywords(q) ==
    UNION {KeywordsIn(q[j]) : j \in 1..Len(q)}
    \cup UNION {KeywordsAcross(q[j], q[j + 1]) : j \in 1..(Len(q) - 1)}

conceptual_keywords ==
    {"what is", "what are", "explain", "describe", "how does", "why", "when",
     "requirements", "rules", "provisions", "obligations", "rights", "principles",
     "definition", "tell me", "can i", "do i need"}

comparison_keywords ==
    {"difference", "compare", "versus", "vs", "distinction", "similar",
     "different", "both", "either", "between"}

lookup_phrases == {"show", "display", "get", "find", "retrieve", "read"}

section_indicators ==
    {"section start", "start from", "which article", "show section", "what is section",
     "display section", "section contain", "in section", "section has"}

chapter_indicators ==
    {"chapter start", "start from", "which article", "show chapter", "what is chapter",
     "display chapter", "chapter contain", "in chapter", "chapter has"}

_is_section_query(q) == QueryKeywords(q) \cap section_indicators # {}

_is_chapter_query(q) == QueryKeywords(q) \cap chapter_indicators # {}

\* re.search: position of the leftmost phrase satisfying P, 0 when none does
FirstIdx(q, P(_, _)) ==
    IF \E j \in 1..Len(q) : P(q, j)
    THEN CHOOSE j \in 1..Len(q) : P(q, j) /\ \A h \in 1..(j - 1) : ~P(q, h)
    ELSE 0

pat_chapter_section(q, j) ==
    q[j].t = "chapter" /\ j + 1 <= Len(q) /\ q[j + 1].t = "section"
pat_section(q, j) == q[j].t = "section"
pat_chapter(q, j) == q[j].t = "chapter"
pat_recital(q, j) == q[j].t = "recital"
pat_full_reference_dot(q, j) == q[j].t = "article" /\ q[j].form = "dotfull"
pat_full_reference_paren(q, j) == q[j].t = "article" /\ q[j].form = "parfull"
pat_article_subsection_dot(q, j) ==
    q[j].t = "article" /\ q[j].form \in {"dotsub", "dotfull"}
pat_article_subsection_paren(q, j) ==
    q[j].t = "article" /\ q[j].form \in {"parsub", "parfull"}
pat_article_only(q, j) == q[j].t = "article" /\ q[j].form = "bare"
pat_article_number(q, j) == q[j].t = "article"

Upper(x) ==
    CASE x = "i" -> "I" [] x = "ii" -> "II" [] x = "iii" -> "III" [] x = "iv" -> "IV"
      [] x = "v" -> "V" [] x = "vi" -> "VI" [] x = "vii" -> "VII" [] x = "viii" -> "VIII"
      [] x = "ix" -> "IX" [] x = "x" -> "X" [] x = "xi" -> "XI"
      [] x \in {"Ii", "iI"} -> "II" [] x \in {"Iv", "iV"} -> "IV"
      [] x \in {"Vi", "vI"} -> "VI" [] x \in {"Ix", "iX"} -> "IX"
      [] x \in {"Xi", "xI"} -> "XI"
      [] OTHER -> x

roman_to_arabic(x, dflt) ==
    CASE x = "I" -> "1" [] x = "II" -> "2" [] x = "III" -> "3" [] x = "IV" -> "4"
      [] x = "V" -> "5" [] x = "VI" -> "6" [] x = "VII" -> "7" [] x = "VIII" -> "8"
      [] x = "IX" -> "9" [] x = "X" -> "10" [] x = "XI" -> "11"
      [] OTHER -> dflt

\* _normalize_chapter_id looking the id up as it is written
_normalize_chapter_id_NoUpper(chapter_str) == roman_to_arabic(chapter_str, chapter_str)

_normalize_chapter_id(chapter_str) == roman_to_arabic(Upper(chapter_str), chapter_str)

\* QueryAnalysis(query_type=qt, original_query=q) with the dataclass defaults
QueryAnalysis(qt, q) ==
    [query_type |-> qt, original_query |-> q, article |-> NONE, recital |-> NONE,
     section |-> NONE, chapter |-> NONE, subsection |-> NONE, point |-> NONE,
     confidence |-> 0, extracted_concepts |-> << >>]

\* no QueryAnalysis object (None)
NoAnalysis == QueryAnalysis(NONE, << >>)

\* the distinct article numbers of the query; list(set(...)) fixes no order
_extract_article_numbers(q) ==
    Perms({q[j].n : j \in {h \in 1..Len(q) : pat_article_number(q, h)}})

_check_exact_reference(q) ==
    LET fd == FirstIdx(q, pat_full_reference_dot)
        fp == FirstIdx(q, pat_full_reference_paren)
        sd == FirstIdx(q, pat_article_subsection_dot)
        sp == FirstIdx(q, pat_article_subsection_paren)
        ao == FirstIdx(q, pat_article_only)
        full(j) == [QueryAnalysis("exact_reference", q) EXCEPT
                      !.article = q[j].n, !.subsection = q[j].s, !.point = q[j].p,
                      !.confidence = 95]
        sub(j) == [QueryAnalysis("exact_reference", q) EXCEPT
                      !.article = q[j].n, !.subsection = q[j].s, !.confidence = 90]
        q_type == IF QueryKeywords(q) \cap lookup_phrases # {}
                  THEN "article_lookup" ELSE "conceptual"
    IN  IF fd # 0 THEN full(fd)
        ELSE IF fp # 0 THEN full(fp)
        ELSE IF sd # 0 THEN sub(sd)
        ELSE IF sp # 0 THEN sub(sp)
        ELSE IF ao # 0 THEN
            [QueryAnalysis(q_type, q) EXCEPT
               !.article = q[ao].n,
               !.confidence = IF q_type = "article_lookup" THEN 85 ELSE 70]
        ELSE NoAnalysis

\* QueryAnalyzer.analyze raises (QueryRoutingError) when the query has no
\* lower(): the regex and keyword code cannot fail on a string
AnalyzeRaises(q) == ~IsStr(q)

\* AnalyzeStr trying the article patterns before the recital pattern
AnalyzeStr_ArticleFirst(q) ==
    LET cs == FirstIdx(q, pat_chapter_section)
        se == FirstIdx(q, pat_section)
        ch == FirstIdx(q, pat_chapter)
        re == FirstIdx(q, pat_recital)
        exact_result == _check_exact_reference(q)
        withArticles(qt, conf) ==
            {[QueryAnalysis(qt, q) EXCEPT
                !.article = IF Len(articles) > 0 THEN articles[1] ELSE NONE,
                !.confidence = conf,
                !.extracted_concepts = articles] : articles \in _extract_article_numbers(q)}
    IN  IF cs # 0 THEN
            {[QueryAnalysis("chapter_section_lookup", q) EXCEPT
                !.chapter = _normalize_chapter_id(q[cs].n),
                !.section = q[cs + 1].n, !.confidence = 95]}
        ELSE IF se # 0 /\ _is_section_query(q) THEN
            {[QueryAnalysis("section_lookup", q) EXCEPT
                !.section = q[se].n, !.confidence = 95]}
        ELSE IF ch # 0 /\ _is_chapter_query(q) THEN
            {[QueryAnalysis("chapter_lookup", q) EXCEPT
                !.chapter = _normalize_chapter_id(q[ch].n), !.confidence = 95]}
        ELSE IF exact_result # NoAnalysis THEN {exact_result}
        ELSE IF re # 0 THEN
            {[QueryAnalysis("recital_lookup", q) EXCEPT
                !.recital = q[re].n, !.confidence = 95]}
        ELSE IF QueryKeywords(q) \cap comparison_keywords # {} THEN
            withArticles("comparison", 80)
        ELSE IF QueryKeywords(q) \cap conceptual_keywords # {} THEN
            withArticles("conceptual", 70)
        ELSE {[QueryAnalysis("general", q) EXCEPT !.confidence = 50]}

\* the analyses analyze(q) can return; more than one only through the
\* unordered list(set(...)) of article numbers
AnalyzeStr(q) ==
    LET cs == FirstIdx(q, pat_chapter_section)
        se == FirstIdx(q, pat_section)
        ch == FirstIdx(q, pat_chapter)
        re == FirstIdx(q, pat_recital)
        exact_result == _check_exact_reference(q)
        withArticles(qt, conf) ==
            {[QueryAnalysis(qt, q) EXCEPT
                !.article = IF Len(articles) > 0 THEN articles[1] ELSE NONE,
                !.confidence = conf,
                !.extracted_concepts = articles] : articles \in _extract_article_numbers(q)}
    IN  IF cs # 0 THEN
            {[QueryAnalysis("chapter_section_lookup", q) EXCEPT
                !.chapter = _normalize_chapter_id(q[cs].n),
                !.section = q[cs + 1].n, !.confidence = 95]}
        ELSE IF se # 0 /\ _is_section_query(q) THEN
            {[QueryAnalysis("section_lookup", q) EXCEPT
                !.section = q[se].n, !.confidence = 95]}
        ELSE IF ch # 0 /\ _is_chapter_query(q) THEN
            {[QueryAnalysis("chapter_lookup", q) EXCEPT
                !.chapter = _normalize_chapter_id(q[ch].n), !.confidence = 95]}
        ELSE IF re # 0 THEN
            {[QueryAnalysis("recital_lookup", q) EXCEPT
                !.recital = q[re].n, !.confidence = 95]}
        ELSE IF exact_result # NoAnalysis THEN {exact_result}
        ELSE IF QueryKeywords(q) \cap comparison_keywords # {} THEN
            withArticles("comparison", 80)
        ELSE IF QueryKeywords(q) \cap conceptual_keywords # {} THEN
            withArticles("conceptual", 70)
        ELSE {[QueryAnalysis("general", q) EXCEPT !.confidence = 50]}

analyze(q) == IF AnalyzeRaises(q) THEN {} ELSE AnalyzeStr(q)

----------------------------------------------------------------------------
(* Corpus documents: the metadata of a langchain Document, and `content`   *)
(* standing for its page_content.                                          *)

Doc(chunk_id, level, recital, chapter, section, article, subsection, point, content) ==
    [chunk_id |-> chunk_id, level |-> level, recital |-> recital, chapter |-> chapter,
     section |-> section, article |-> article, subsection |-> subsection,
     point |-> point, content |-> content]

\* doc.metadata.get(key)
Meta(doc, key) ==
    CASE key = "recital" -> doc.recital
      [] key = "article" -> doc.article
      [] key = "subsection" -> doc.subsection
      [] key = "point" -> doc.point
      [] key = "chapter" -> doc.chapter
      [] key = "section" -> doc.section
      [] key = "level" -> doc.level
      [] key = "chunk_id" -> doc.chunk_id

\* sorted(s, key=...) is stable: x goes after the elements not greater than it
StableSort(s, Less(_, _)) ==
    LET f[n \in 0..Len(s)] ==
            IF n = 0 THEN << >>
            ELSE LET init == f[n - 1]
                     x == s[n]
                     p == Cardinality({j \in 1..Len(init) : ~Less(x, init[j])})
                 IN  SubSeq(init, 1, p) \o <<x>> \o SubSeq(init, p + 1, Len(init))
    IN  f[Len(s)]

\* [x for x in s if P(x)]
Filter(s, P(_)) ==
    LET f[n \in 0..Len(s)] ==
            IF n = 0 THEN << >>
            ELSE f[n - 1] \o (IF P(s[n]) THEN <<s[n]>> ELSE << >>)
    IN  f[Len(s)]

\* the outcome of one call to the external index or reranking retriever
Outcome(ok, ds) == [ok |-> ok, docs |-> ds]
Unreachable == Outcome(FALSE, << >>)

----------------------------------------------------------------------------
(* ExactRetriever *)

EXACT_SCAN_K == 2000
HYBRID_SCAN_K == 5000

\* a filter that leaves the point out
_build_metadata_filter_NoPoint(an) ==
    IF Truthy(an.recital) THEN {<<"recital", an.recital>>}
    ELSE (IF Truthy(an.article) THEN {<<"article", an.article>>} ELSE {})
         \cup (IF Truthy(an.subsection) THEN {<<"subsection", an.subsection>>} ELSE {})

\* ExactRetriever._build_metadata_filter: the filter as a set of <<key, value>>
_build_metadata_filter(an) ==
    IF Truthy(an.recital) THEN {<<"recital", an.recital>>}
    ELSE (IF Truthy(an.article) THEN {<<"article", an.article>>} ELSE {})
         \cup (IF Truthy(an.subsection) THEN {<<"subsection", an.subsection>>} ELSE {})
         \cup (IF Truthy(an.point) THEN {<<"point", an.point>>} ELSE {})

\* ExactRetriever._get_all_documents: a failing index yields the empty list
Exact_get_all_documents(scan) ==
    IF scan.ok THEN Take(scan.docs, EXACT_SCAN_K) ELSE << >>

DocMatches(doc, filter_dict) ==
    \A kv \in filter_dict : Str(Meta(doc, kv[1])) = Str(kv[2])

_filter_documents(documents, filter_dict) ==
    LET match(doc) == DocMatches(doc, filter_dict)
    IN  Filter(documents, match)

\* specificity_score giving no weight to the point tag
specificity_score_FlatPoint(doc) ==
    (IF Truthy(doc.point) THEN 0 ELSE 0)
    + (IF Truthy(doc.subsection) THEN 10 ELSE 0)
    + (IF Truthy(doc.article) THEN 1 ELSE 0)
    + (IF Truthy(doc.recital) THEN 1 ELSE 0)

specificity_score(doc) ==
    (IF Truthy(doc.point) THEN 100 ELSE 0)
    + (IF Truthy(doc.subsection) THEN 10 ELSE 0)
    + (IF Truthy(doc.article) THEN 1 ELSE 0)
    + (IF Truthy(doc.recital) THEN 1 ELSE 0)

target_level(an) ==
    IF Truthy(an.recital) THEN "recital"
    ELSE IF Truthy(an.point) THEN "point"
    ELSE IF Truthy(an.subsection) THEN "subsection"
    ELSE IF Truthy(an.article) THEN "article"
    ELSE NONE

\* a level match that never boosts
level_match_Never(doc, an) == 0

level_match(doc, an) ==
    IF Truthy(target_level(an)) /\ Str(doc.level) = target_level(an) THEN 1 ELSE 0

\* the key with the specificity score ahead of the level match
custom_sort_ScoreFirst(doc, an) == <<0 - specificity_score(doc), 0 - level_match(doc, an)>>

\* custom_sort: the key (-level_match, -specificity), compared as a tuple
custom_sort(doc, an) == <<0 - level_match(doc, an), 0 - specificity_score(doc)>>

TupleLess(a, b) == a[1] < b[1] \/ (a[1] = b[1] /\ a[2] < b[2])

_sort_by_specificity(documents, an) ==
    LET less(x, y) == TupleLess(custom_sort(x, an), custom_sort(y, an))
    IN  StableSort(documents, less)

\* ExactRetriever.retrieve(analysis, k), on the outcome of its index scan
ExactRetrieve(scan, an, kk) ==
    LET metadata_filter == _build_metadata_filter(an)
        all_docs == Exact_get_all_documents(scan)
        filtered_docs == _sort_by_specificity(_filter_documents(all_docs, metadata_filter), an)
    IN  IF metadata_filter = {} THEN << >> ELSE Take(filtered_docs, kk)

\* keep the first document of every chunk_id; documents without one are dropped
RECURSIVE DedupTruthyIds(_, _)
DedupTruthyIds(s, seen) ==
    IF s = << >> THEN << >>
    ELSE IF Truthy(s[1].chunk_id) /\ s[1].chunk_id \notin seen
         THEN <<s[1]>> \o DedupTruthyIds(Tail(s), seen \cup {s[1].chunk_id})
         ELSE DedupTruthyIds(Tail(s), seen)

\* ExactRetriever.retrieve_with_context(analysis, k); scans[1..3] are the
\* outcomes of the index scans of its three retrieve calls
retrieve_with_context(scans, an, kk) ==
    LET exact_matches == ExactRetrieve(scans[1], an, 1)
        sub_parent == [QueryAnalysis("exact_reference", an.original_query) EXCEPT
                         !.article = an.article, !.subsection = an.subsection]
        art_parent == [QueryAnalysis("article_lookup", an.original_query) EXCEPT
                         !.article = an.article]
        r1 == IF Truthy(an.point) /\ Truthy(an.subsection)
              THEN ExactRetrieve(scans[2], sub_parent, 1) ELSE << >>
        r2 == IF Truthy(an.subsection)
              THEN ExactRetrieve(scans[3], art_parent, 1) ELSE << >>
    IN  IF Truthy(an.recital) THEN exact_matches
        ELSE Take(DedupTruthyIds(exact_matches \o r1 \o r2, {}), kk)

----------------------------------------------------------------------------
(* SemanticRetriever.  A result is [raised, docs]: raised means the call   *)
(* left through an exception instead of returning.                         *)

Returned(ds) == [raised |-> FALSE, docs |-> ds]
Raised == [raised |-> TRUE, docs |-> << >>]

\* `k or Config.RETRIEVER_K_FINAL`
KOrDefault(kk) == IF kk = 0 THEN RETRIEVER_K_FINAL ELSE kk

\* SemanticRetrieve without its try/except
SemanticRetrieve_NoCatch(sem, kk) ==
    IF sem.ok THEN Returned(Take(sem.docs, KOrDefault(kk))) ELSE Raised

\* SemanticRetriever.retrieve(query, k), on the outcome of the reranking
\* retriever's get_relevant_documents; every exception is caught
SemanticRetrieve(sem, kk) ==
    IF sem.ok THEN Returned(Take(sem.docs, KOrDefault(kk))) ELSE Returned(<< >>)

boost_score(doc, article) ==
    IF doc.article = article THEN 10
    ELSE IF Truthy(doc.article) THEN 1 ELSE 0

\* SemanticRetriever.retrieve_with_metadata_boost(query, article, k)
retrieve_with_metadata_boost(sem, article, kk) ==
    LET k1 == KOrDefault(kk)
        r == SemanticRetrieve(sem, k1 * 3)
        higher(x, y) == boost_score(x, article) > boost_score(y, article)
    IN  IF r.raised THEN Returned(<< >>)
        ELSE IF ~Truthy(article) THEN Returned(Take(r.docs, k1))
        ELSE Returned(Take(StableSort(r.docs, higher), k1))

----------------------------------------------------------------------------
(* HybridRetriever.  A handler's result is [raised, docs, calls]: calls    *)
(* are the retriever calls it made, in order.                              *)

H(raised, ds, cs) == [raised |-> raised, docs |-> ds, calls |-> cs]

ExactCall(fn, role, q, kk, ds) ==
    [fn |-> fn, role |-> role, q |-> q, k |-> kk, res |-> ds, raised |-> FALSE]

SemCall(fn, role, q, kk, r) ==
    [fn |-> fn, role |-> role, q |-> q, k |-> kk, res |-> r.docs, raised |-> r.raised]

NumStrs ==
    <<"0", "1", "2", "3", "4", "5", "6", "7", "8", "9", "10", "11", "12">>

\* str(n) and int(s) on the numbers in use
NumStr(n) == NumStrs[n + 1]
IsNumeric(s) == \E n \in 0..(Len(NumStrs) - 1) : NumStr(n) = s
IntOf(s) == CHOOSE n \in 0..(Len(NumStrs) - 1) : NumStr(n) = s

\* HybridRetriever._get_all_documents
Hybrid_get_all_documents(scan) ==
    IF scan.ok THEN Take(scan.docs, HYBRID_SCAN_K) ELSE << >>

\* HybridRetriever._deduplicate_documents
RECURSIVE DedupById(_, _)
DedupById(s, seen) ==
    IF s = << >> THEN << >>
    ELSE IF s[1].chunk_id \notin seen
         THEN <<s[1]>> \o DedupById(Tail(s), seen \cup {s[1].chunk_id})
         ELSE DedupById(Tail(s), seen)

_deduplicate_documents(ds) == DedupById(ds, {})

_get_alternate_chapter_format(chapter_id) ==
    LET arabic == roman_to_arabic(chapter_id, NONE)
        romans == {r \in {"I", "II", "III", "IV", "V", "VI", "VII", "VIII", "IX", "X", "XI"} :
                     roman_to_arabic(r, NONE) = chapter_id}
    IN  IF arabic # NONE THEN arabic
        ELSE IF romans # {} THEN CHOOSE r \in romans : TRUE
        ELSE chapter_id

\* the common tail of the chapter / section handlers: the first article of
\* the group plus context, deduplicated and cut to k
FirstArticleWithContext(filtered_docs, kk) ==
    LET hasNumber(doc) == Truthy(doc.article) /\ IsNumeric(doc.article)
        numbered == Filter(filtered_docs, hasNumber)
        articles_found == [j \in 1..Len(numbered) |-> IntOf(numbered[j].article)]
        lessInt(a, b) == a < b
        sorted_found == StableSort(articles_found, lessInt)
        first_article == NumStr(sorted_found[1])
        isFirst(doc) == Str(doc.article) = first_article /\ doc.level = "article"
        context_articles == {NumStr(a) : a \in Range(Take(sorted_found, 3))}
        inContext(doc) == doc.article \in context_articles
        result == _deduplicate_documents(
                      Filter(filtered_docs, isFirst) \o Filter(filtered_docs, inContext))
    IN  IF Len(articles_found) > 0 THEN Take(result, kk) ELSE Take(filtered_docs, kk)

\* a lookup handler: the group on a hit, else the semantic retriever
GroupOrSemantic(filtered_docs, sem, an, kk) ==
    IF filtered_docs = << >>
    THEN LET r == SemanticRetrieve(sem, kk)
         IN  H(r.raised, r.docs,
               <<SemCall("semantic.retrieve", "handler_fallback", an.original_query, kk, r)>>)
    ELSE H(FALSE, FirstArticleWithContext(filtered_docs, kk), << >>)

_handle_chapter_section_lookup(scan, sem, an, kk) ==
    LET all_docs == Hybrid_get_all_documents(scan)
        m1(doc) == Str(doc.chapter) = Str(an.chapter) /\ Str(doc.section) = Str(an.section)
        alt_chapter == _get_alternate_chapter_format(an.chapter)
        m2(doc) == Str(doc.chapter) = Str(alt_chapter) /\ Str(doc.section) = Str(an.section)
        first == Filter(all_docs, m1)
        filtered_docs == IF first = << >> THEN Filter(all_docs, m2) ELSE first
    IN  GroupOrSemantic(filtered_docs, sem, an, kk)

_handle_section_lookup(scan, sem, an, kk) ==
    LET all_docs == Hybrid_get_all_documents(scan)
        m1(doc) == Str(doc.section) = Str(an.section)
    IN  GroupOrSemantic(Filter(all_docs, m1), sem, an, kk)

_handle_chapter_lookup(scan, sem, an, kk) ==
    LET all_docs == Hybrid_get_all_documents(scan)
        m1(doc) == Str(doc.chapter) = Str(an.chapter)
        alt_chapter == _get_alternate_chapter_format(an.chapter)
        m2(doc) == Str(doc.chapter) = Str(alt_chapter)
        first == Filter(all_docs, m1)
        chapter_docs == IF first = << >> THEN Filter(all_docs, m2) ELSE first
    IN  GroupOrSemantic(chapter_docs, sem, an, kk)

\* ExactOrSemantic consulting the semantic retriever on every request
ExactOrSemantic_Always(fn, exact_docs, sem, an, kk) ==
    LET c1 == ExactCall(fn, "handler", an.original_query, kk, exact_docs)
        r == SemanticRetrieve(sem, kk)
    IN  H(r.raised, Take(exact_docs \o r.docs, kk),
          <<c1, SemCall("semantic.retrieve", "handler_fallback", an.original_query, kk, r)>>)

\* an exact handler: the exact result when not empty, else the semantic retriever
ExactOrSemantic(fn, exact_docs, sem, an, kk) ==
    LET c1 == ExactCall(fn, "handler", an.original_query, kk, exact_docs)
        r == SemanticRetrieve(sem, kk)
    IN  IF exact_docs # << >> THEN H(FALSE, exact_docs, <<c1>>)
        ELSE H(r.raised, r.docs,
               <<c1, SemCall("semantic.retrieve", "handler_fallback", an.original_query, kk, r)>>)

_handle_recital_lookup(scan, sem, an, kk) ==
    ExactOrSemantic("exact.retrieve", ExactRetrieve(scan, an, kk), sem, an, kk)

_handle_exact_reference(scans, sem, an, kk) ==
    ExactOrSemantic("exact.retrieve_with_context", retrieve_with_context(scans, an, kk),
                    sem, an, kk)

_handle_article_lookup(scan, sem, an, kk) ==
    ExactOrSemantic("exact.retrieve", ExactRetrieve(scan, an, kk), sem, an, kk)

_handle_conceptual(q, sem, an, kk) ==
    LET r == IF Truthy(an.article)
             THEN retrieve_with_metadata_boost(sem, an.article, kk)
             ELSE SemanticRetrieve(sem, kk)
        fn == IF Truthy(an.article) THEN "semantic.retrieve_with_metadata_boost"
              ELSE "semantic.retrieve"
    IN  H(r.raised, r.docs, <<SemCall(fn, "primary", q, kk, r)>>)

\* _handle_comparison without the final docs[:k]
_handle_comparison_NoLimit(q, scans, sem, an, kk) ==
    LET r == SemanticRetrieve(sem, kk * 2)
        c0 == SemCall("semantic.retrieve", "primary", q, kk * 2, r)
        concepts == an.extracted_concepts
        has(article) == \E j \in 1..Len(r.docs) : r.docs[j].article = article
        lookup(article) == [QueryAnalysis("article_lookup", q) EXCEPT !.article = article]
        fetch(j) == ExactRetrieve(scans[j], lookup(concepts[j]), 2)
        need(j) == Len(concepts) >= 2 /\ ~has(concepts[j])
        extra(j) == IF need(j) THEN fetch(j) ELSE << >>
    IN  H(FALSE, _deduplicate_documents(r.docs \o extra(1) \o extra(2)), <<c0>>)

\* scans[1], scans[2]: the index scans of the two explicit article fetches
_handle_comparison(q, scans, sem, an, kk) ==
    LET r == SemanticRetrieve(sem, kk * 2)
        c0 == SemCall("semantic.retrieve", "primary", q, kk * 2, r)
        concepts == an.extracted_concepts
        has(article) == \E j \in 1..Len(r.docs) : r.docs[j].article = article
        lookup(article) == [QueryAnalysis("article_lookup", q) EXCEPT !.article = article]
        fetch(j) == ExactRetrieve(scans[j], lookup(concepts[j]), 2)
        need(j) == Len(concepts) >= 2 /\ ~has(concepts[j])
        extra(j) == IF need(j) THEN fetch(j) ELSE << >>
        call(j) == IF need(j)
                   THEN <<ExactCall("exact.retrieve", "backfill", q, 2, fetch(j))>>
                   ELSE << >>
    IN  IF r.raised THEN H(TRUE, << >>, <<c0>>)
        ELSE H(FALSE,
               Take(_deduplicate_documents(r.docs \o extra(1) \o extra(2)), kk),
               <<c0>> \o call(1) \o call(2))

_handle_general(q, sem, kk) ==
    LET r == SemanticRetrieve(sem, kk)
    IN  H(r.raised, r.docs, <<SemCall("semantic.retrieve", "primary", q, kk, r)>>)

_fallback_retrieval(q, sem, kk) ==
    LET r == SemanticRetrieve(sem, kk)
    IN  H(r.raised, r.docs, <<SemCall("semantic.retrieve", "fallback", q, kk, r)>>)

----------------------------------------------------------------------------
(* Ingestion.  A source line is [kind, id, len]: kind says which of the    *)
(* parser's patterns the stripped line matches, id is the number or letter *)
(* the pattern captures (a label for plain text), len its length.          *)
(*   adopted     contains "HAVE ADOPTED THIS REGULATION"                   *)
(*   chapter     "CHAPTER II"        section     "Section 1"               *)
(*   article     "Article 5"         recital     "(12) text"               *)
(*   subsection  "1. text"           point       "(a) text"                *)
(*   text        anything else       blank       empty after strip()       *)
(* A text is the sequence of its pieces; its separators are counted in its *)
(* length.                                                                 *)

Line(kind, id, len) == [kind |-> kind, id |-> id, len |-> len]

MARKER_LEN == 4

\* text[match.end():].strip(): the line without its leading marker
Content(line) ==
    Line("content", line.id, IF line.len > MARKER_LEN THEN line.len - MARKER_LEN ELSE 0)

RECURSIVE SumLen(_)
SumLen(t) == IF t = << >> THEN 0 ELSE t[1].len + SumLen(Tail(t))

\* len() of pieces joined by single separators
JoinedLen(t) == IF t = << >> THEN 0 ELSE SumLen(t) + Len(t) - 1

\* len() of pieces each preceded by a separator ("\n" + text, repeatedly)
PrefixedLen(t) == SumLen(t) + Len(t)

ArticleStructure(id, title, page, full_text, chapter, section, is_recital) ==
    [id |-> id, title |-> title, page |-> page, full_text |-> full_text,
     subsections |-> << >>, chapter |-> chapter, section |-> section,
     is_recital |-> is_recital]

\* current_struct = None
NoStruct == ArticleStructure(NONE, Line("text", NONE, 0), 0, << >>, NONE, NONE, FALSE)

Subsection(number, text, points) == [number |-> number, text |-> text, points |-> points]
Point(letter, text) == [letter |-> letter, text |-> text]

\* _parse_subsections without the default subsection "0" for a leading point
_parse_subsections_NoZero(text_lines) ==
    LET save(st) ==
            IF Truthy(st.curr_sub_num)
            THEN Append(st.subsections,
                        Subsection(st.curr_sub_num, st.curr_sub_text, st.curr_points))
            ELSE st.subsections
        step(st, line) ==
            IF line.kind = "subsection" THEN
                [subsections |-> save(st), curr_sub_num |-> line.id,
                 curr_sub_text |-> <<Content(line)>>, curr_points |-> << >>]
            ELSE IF line.kind = "point" THEN
                [st EXCEPT
                   !.curr_sub_num = st.curr_sub_num,
                   !.curr_points = Append(st.curr_points, Point(line.id, <<Content(line)>>))]
            ELSE IF st.curr_points # << >> THEN
                [st EXCEPT !.curr_points[Len(st.curr_points)].text = Append(@, line)]
            ELSE IF Truthy(st.curr_sub_num) THEN
                [st EXCEPT !.curr_sub_text = Append(@, line)]
            ELSE st
        f[n \in 0..Len(text_lines)] ==
            IF n = 0
            THEN [subsections |-> << >>, curr_sub_num |-> NONE,
                  curr_sub_text |-> << >>, curr_points |-> << >>]
            ELSE step(f[n - 1], text_lines[n])
    IN  save(f[Len(text_lines)])

\* LegalDocumentParser._parse_subsections, on the lines of an article's text
\* (the leading empty line of "\n".join is skipped by `if not line`)
_parse_subsections(text_lines) ==
    LET save(st) ==
            IF Truthy(st.curr_sub_num)
            THEN Append(st.subsections,
                        Subsection(st.curr_sub_num, st.curr_sub_text, st.curr_points))
            ELSE st.subsections
        step(st, line) ==
            IF line.kind = "subsection" THEN
                [subsections |-> save(st), curr_sub_num |-> line.id,
                 curr_sub_text |-> <<Content(line)>>, curr_points |-> << >>]
            ELSE IF line.kind = "point" THEN
                [st EXCEPT
                   !.curr_sub_num = IF Truthy(st.curr_sub_num) THEN st.curr_sub_num ELSE "0",
                   !.curr_points = Append(st.curr_points, Point(line.id, <<Content(line)>>))]
            ELSE IF st.curr_points # << >> THEN
                [st EXCEPT !.curr_points[Len(st.curr_points)].text = Append(@, line)]
            ELSE IF Truthy(st.curr_sub_num) THEN
                [st EXCEPT !.curr_sub_text = Append(@, line)]
            ELSE st
        f[n \in 0..Len(text_lines)] ==
            IF n = 0
            THEN [subsections |-> << >>, curr_sub_num |-> NONE,
                  curr_sub_text |-> << >>, curr_points |-> << >>]
            ELSE step(f[n - 1], text_lines[n])
    IN  save(f[Len(text_lines)])

\* the flush of a structure: an article gets its subsections parsed
Flushed(struct) ==
    IF struct.is_recital THEN struct
    ELSE [struct EXCEPT !.subsections = _parse_subsections(struct.full_text)]

LegalReference ==
    [recital |-> NONE, chapter |-> NONE, chapter_title |-> NONE, section |-> NONE,
     section_title |-> NONE, article |-> NONE, article_title |-> NONE,
     subsection |-> NONE, point |-> NONE]

DocumentChunk(content_len, reference, page, chunk_id, level, parent_len) ==
    [content_len |-> content_len, reference |-> reference, page |-> page,
     chunk_id |-> chunk_id, level |-> level, parent_len |-> parent_len]

\* a recital reference that also carries the number as an article tag
RecitalReference_WithArticle(struct) ==
    [LegalReference EXCEPT !.recital = struct.id, !.article = struct.id]

\* the reference of a recital chunk: LegalReference(recital=struct.id)
RecitalReference(struct) == [LegalReference EXCEPT !.recital = struct.id]

RecitalChunk(struct) ==
    DocumentChunk(JoinedLen(struct.full_text), RecitalReference(struct), struct.page,
                  "regulation_point_" \o struct.id, "recital", 0)

\* ArticleStructure declares no section_title field: reading struct.section_title
\* raises AttributeError
HasSectionTitle == FALSE

ArticleChunks(struct) ==
    LET base_ref == [LegalReference EXCEPT
                       !.chapter = struct.chapter, !.section = struct.section,
                       !.article = struct.id, !.article_title = struct.title.id]
        subChunks(sub) ==
            LET pointsLen == SumLen([j \in 1..Len(sub.points) |->
                                        Line("p", "", 5 + JoinedLen(sub.points[j].text))])
            IN  <<DocumentChunk(JoinedLen(sub.text) + pointsLen,
                                [base_ref EXCEPT !.subsection = sub.number], struct.page,
                                "article_" \o struct.id \o "_" \o sub.number,
                                "subsection", struct.title.len)>>
                \o [j \in 1..Len(sub.points) |->
                      DocumentChunk(JoinedLen(sub.points[j].text),
                                    [base_ref EXCEPT !.subsection = sub.number,
                                                     !.point = sub.points[j].letter],
                                    struct.page,
                                    "article_" \o struct.id \o "_" \o sub.number
                                       \o "_" \o sub.points[j].letter,
                                    "point", 11 + Len(sub.number))]
        f[n \in 0..Len(struct.subsections)] ==
            IF n = 0 THEN << >> ELSE f[n - 1] \o subChunks(struct.subsections[n])
    IN  <<DocumentChunk(PrefixedLen(struct.full_text), base_ref, struct.page,
                        "article_" \o struct.id, "article", 0)>>
        \o f[Len(struct.subsections)]

\* LegalDocumentParser.create_chunks_from_articles: [raised, chunks]
create_chunks_from_articles(articles) ==
    LET f[n \in 0..Len(articles)] ==
            IF n = 0 THEN [raised |-> FALSE, chunks |-> << >>]
            ELSE IF f[n - 1].raised THEN f[n - 1]
            ELSE IF articles[n].is_recital
                 THEN [f[n - 1] EXCEPT !.chunks = Append(@, RecitalChunk(articles[n]))]
            ELSE IF ~HasSectionTitle THEN [raised |-> TRUE, chunks |-> << >>]
            ELSE [f[n - 1] EXCEPT !.chunks = @ \o ArticleChunks(articles[n])]
    IN  f[Len(articles)]

\* DocumentChunk.to_langchain_document: the metadata, and the length of the
\* page content ("Context: {parent}\n---\n{content}" when there is a parent)
to_langchain_document(chunk) ==
    [page |-> chunk.page, chunk_id |-> chunk.chunk_id, level |-> chunk.level,
     recital |-> chunk.reference.recital, chapter |-> chunk.reference.chapter,
     chapter_title |-> chunk.reference.chapter_title,
     section |-> chunk.reference.section,
     section_title |-> chunk.reference.section_title,
     article |-> chunk.reference.article,
     article_title |-> chunk.reference.article_title,
     subsection |-> chunk.reference.subsection, point |-> chunk.reference.point,
     content_len |-> IF chunk.parent_len > 0
                     THEN 9 + chunk.parent_len + 5 + chunk.content_len
                     ELSE chunk.content_len,
     part |-> 1]

\* RecursiveCharacterTextSplitter.split_documents: a document longer than
\* chunk_size comes back as several documents, each with a copy of the metadata
split_document(doc) ==
    IF doc.content_len <= CHUNK_SIZE THEN <<doc>>
    ELSE LET n == (doc.content_len + CHUNK_SIZE - 1) \div CHUNK_SIZE
         IN  [j \in 1..n |-> [doc EXCEPT !.part = j,
                                         !.content_len = IF j < n THEN CHUNK_SIZE
                                                         ELSE doc.content_len - (n - 1) * CHUNK_SIZE]]

split_documents(base_documents) ==
    LET f[n \in 0..Len(base_documents)] ==
            IF n = 0 THEN << >> ELSE f[n - 1] \o split_document(base_documents[n])
    IN  f[Len(base_documents)]

\* the local variables of extract_document_structure; i counts from 0
Parser(all_lines, i, structures, current_struct, in_regulation_phase) ==
    [all_lines |-> all_lines, i |-> i, structures |-> structures,
     current_struct |-> current_struct,
     current_chapter |-> NONE, current_chapter_title |-> NONE,
     current_section |-> NONE, current_section_title |-> NONE,
     in_regulation_phase |-> in_regulation_phase]

NoParser == Parser(<< >>, 0, << >>, NoStruct, TRUE)

\* the flattening of the pages: stripped lines, empty ones dropped
FlattenPages(raw) ==
    LET nonEmpty(line) == line.kind # "blank"
    IN  Filter(raw, nonEmpty)

\* the phase switch without the `Article 1` trigger
is_start_of_legislation_NoArticle(line) ==
    \/ line.kind = "adopted"
    \/ line.kind = "chapter" /\ line.id \in {"1", "I", "i"}

is_start_of_legislation(line) ==
    \/ line.kind = "adopted"
    \/ line.kind = "chapter" /\ line.id \in {"1", "I", "i"}
    \/ line.kind = "article" /\ line.id = "1"

\* a flush that appends article structures only
WithFlushed_ArticlesOnly(ps) ==
    IF ps.current_struct # NoStruct /\ ~ps.current_struct.is_recital
    THEN Append(ps.structures, Flushed(ps.current_struct))
    ELSE ps.structures

\* structures after `if current_struct: ... structures.append(current_struct)`
WithFlushed(ps) ==
    IF ps.current_struct # NoStruct
    THEN Append(ps.structures, Flushed(ps.current_struct))
    ELSE ps.structures

\* an index that always moves on by two lines
NextIndex_AlwaysTwo(i, title_taken) == i + 2

\* the index after an iteration: `i += 1`, after another `i += 1` when the
\* lookahead took the next line as a title
NextIndex(i, title_taken) == IF title_taken THEN i + 2 ELSE i + 1

\* one iteration of the while loop of extract_document_structure
ScanStep(ps) ==
    LET line == ps.all_lines[ps.i + 1]
        hasNext == ps.i + 1 < Len(ps.all_lines)
        next == ps.all_lines[ps.i + 2]
        phase1 == ps.in_regulation_phase /\ ~is_start_of_legislation(line)
        p == [ps EXCEPT !.in_regulation_phase = phase1]
    IN  IF phase1 THEN
            IF line.kind = "recital" THEN
                [p EXCEPT !.structures = WithFlushed(ps),
                          !.current_struct =
                              ArticleStructure(line.id, Line("text", "Regulation Point", 16),
                                               0, <<Content(line)>>, NONE, NONE, TRUE),
                          !.i = NextIndex(@, FALSE)]
            ELSE IF ps.current_struct # NoStruct /\ ps.current_struct.is_recital THEN
                [p EXCEPT !.current_struct.full_text = Append(@, line), !.i = NextIndex(@, FALSE)]
            ELSE [p EXCEPT !.i = NextIndex(@, FALSE)]
        ELSE IF line.kind = "chapter" THEN
            IF hasNext /\ next.kind \notin {"section", "article"}
            THEN [p EXCEPT !.current_chapter = line.id,
                           !.current_chapter_title = next.id, !.i = NextIndex(@, TRUE)]
            ELSE [p EXCEPT !.current_chapter = line.id, !.i = NextIndex(@, FALSE)]
        ELSE IF line.kind = "section" THEN
            IF hasNext /\ next.kind # "article" /\ next.len < MAX_TITLE_LEN
            THEN [p EXCEPT !.current_section = line.id,
                           !.current_section_title = next.id, !.i = NextIndex(@, TRUE)]
            ELSE [p EXCEPT !.current_section = line.id, !.i = NextIndex(@, FALSE)]
        ELSE IF line.kind = "article" THEN
            LET takesTitle == hasNext /\ next.kind # "subsection" /\ next.len < MAX_TITLE_LEN
                title == IF takesTitle THEN next
                         ELSE Line("text", "Article " \o line.id, 8 + Len(line.id))
            IN  [p EXCEPT !.structures = WithFlushed(ps),
                          !.current_struct =
                              ArticleStructure(line.id, title, 0, << >>,
                                               ps.current_chapter, ps.current_section, FALSE),
                          !.i = NextIndex(@, takesTitle)]
        ELSE IF ps.current_struct # NoStruct /\ ~ps.current_struct.is_recital THEN
            [p EXCEPT !.current_struct.full_text = Append(@, line), !.i = NextIndex(@, FALSE)]
        ELSE [p EXCEPT !.i = NextIndex(@, FALSE)]

----------------------------------------------------------------------------
(* The parts of the state a request or run does not use *)

\* no corpus update in flight
NoPending == [before |-> << >>, new |-> << >>, added |-> 0]

\* no request received
NoRequest == [query |-> [len |-> -1, stripped |-> -1],
              session_id |-> [len |-> -1, stripped |-> -1]]

\* the API process: globals of api.py, what the lifespan did, the request
\* being served and the response sent (status 0: none yet)
Api(startup, engine) ==
    [startup |-> startup, store_found |-> FALSE, create_calls |-> 0, saved |-> 0,
     engine |-> engine, request |-> NoRequest, status |-> 0, detail |-> FALSE,
     chain_calls |-> 0]

\* no API process
NoApi == Api("none", FALSE)

\* no chapter id being normalized
NoNorm == [site |-> NONE, x |-> NONE, once |-> NONE, twice |-> NONE]

----------------------------------------------------------------------------
(* Inputs of the retrieval model *)

D_A6 == Doc("article_6", "article", NONE, "IV", "3", "6", NONE, NONE, "c1")
D_A6_1 == Doc("article_6_1", "subsection", NONE, "IV", "3", "6", "1", NONE, "c2")
D_A6_1_a == Doc("article_6_1_a", "point", NONE, "IV", "3", "6", "1", "a", "c3")
D_A7 == Doc("article_7", "article", NONE, "IV", "3", "7", NONE, NONE, "c4")
D_A7_1 == Doc("article_7_1", "subsection", NONE, "IV", "3", "7", "1", NONE, "c5")
D_A8 == Doc("article_8", "article", NONE, "V", NONE, "8", NONE, NONE, "c6")
D_R42 == Doc("regulation_point_42", "recital", "42", NONE, NONE, NONE, NONE, NONE, "c7")

Universe == <<D_A6, D_A6_1, D_A6_1_a, D_A7, D_A7_1, D_A8, D_R42>>

Reverse(s) == [j \in 1..Len(s) |-> s[Len(s) + 1 - j]]

\* the documents of Universe at the positions S, in Universe order
RECURSIVE Pick(_, _)
Pick(S, from) ==
    IF from > Len(Universe) THEN << >>
    ELSE (IF from \in S THEN <<Universe[from]>> ELSE << >>) \o Pick(S, from + 1)

\* corpora of at most MaxDocs documents, in either scan order
Corpora ==
    LET subsets == {S \in SUBSET (1..Len(Universe)) : Cardinality(S) <= MaxDocs}
    IN  {Pick(S, 1) : S \in subsets} \cup {Reverse(Pick(S, 1)) : S \in subsets}

Q_ChapterSection == <<Chap("4"), Sec("3")>>
Q_Section == <<Word("which article"), Sec("3")>>
Q_Chapter == <<Word("which article"), Chap("IV")>>
Q_ChapterAbsent == <<Word("which article"), Chap("9")>>
Q_Recital42 == <<Word("what is"), Rec("42")>>
Q_Recital43 == <<Word("what is"), Rec("43")>>
Q_Point == <<ArtDotFull("6", "1", "a")>>
Q_Subsection == <<ArtDotSub("6", "1")>>
Q_PointAbsent == <<ArtParFull("7", "1", "a")>>
Q_ShowArticle == <<Word("show"), Art("6")>>
Q_WhatIsArticle == <<Word("what is"), Art("6")>>
Q_WhatIs == <<Word("what is")>>
Q_Difference == <<Word("difference between"), Art("6"), Word("and"), Art("7")>>
Q_DifferenceDots == <<Word("difference between"), ArtDangling("6"), ArtDangling("7")>>
Q_DifferencePlain == <<Word("difference between")>>
Q_Other == <<Word("and")>>

RouterQueries ==
    {Q_ChapterSection, Q_Section, Q_Chapter, Q_ChapterAbsent, Q_Recital42, Q_Recital43,
     Q_Point, Q_Subsection, Q_PointAbsent, Q_ShowArticle, Q_WhatIsArticle, Q_WhatIs,
     Q_Difference, Q_DifferenceDots, Q_DifferencePlain, Q_Other, NonStr}

\* what one full scan of the index can yield: the corpus, or nothing when the
\* index call raises ("up": no call raises, "down": every call raises,
\* "flaky": each call may raise)
ScanOutcomes ==
    (IF index = "down" THEN {} ELSE {Outcome(TRUE, corpus)})
    \cup (IF index = "up" THEN {} ELSE {Unreachable})

\* what the reranking retriever can yield for a query: nothing (the index
\* raises) or up to RETRIEVER_K_RERANKED distinct documents of the corpus
SemOutcomes ==
    (IF index = "up" THEN {} ELSE {Unreachable}) \cup
    (IF index = "down" THEN {}
     ELSE {Outcome(TRUE, r) :
             r \in InjSeqs(Range(corpus), Min(RETRIEVER_K_RERANKED, RETRIEVER_K_BASE))})

----------------------------------------------------------------------------
(* HybridRetriever.retrieve(query, k) as a state machine.                  *)
(*   Received -> Classified -> Dispatched -> Resolved                      *)
(*   Failed: an exception is pending inside the try block                  *)
(*   Raised: an exception left retrieve                                    *)

InitRouter ==
    /\ query \in RouterQueries
    /\ k \in 0..MaxK
    /\ corpus \in Corpora
    /\ pc = "Received"
    /\ analysis = NoAnalysis
    /\ docs = << >>
    /\ calls = << >>
    /\ lines = << >>
    /\ parser = NoParser
    /\ built = << >>
    /\ index \in {"flaky", "down"}
    /\ pending = NoPending
    /\ api = NoApi
    /\ norm = NoNorm

\* k = k or Config.RETRIEVER_K_FINAL
EffK == KOrDefault(k)

Analyze ==
    /\ pc = "Received"
    /\ IF AnalyzeRaises(query)
       THEN pc' = "Failed" /\ UNCHANGED analysis
       ELSE pc' = "Classified" /\ analysis' \in analyze(query)
    /\ UNCHANGED <<query, k, corpus, docs, calls, lines, parser, built, envVars>>

\* the handler's result becomes docs; an exception goes to the except block
Handled(h) ==
    /\ calls' = calls \o h.calls
    /\ IF h.raised
       THEN pc' = "Failed" /\ UNCHANGED docs
       ELSE pc' = "Dispatched" /\ docs' = h.docs
    /\ UNCHANGED <<query, k, corpus, analysis, lines, parser, built, envVars>>

HandleChapterSection ==
    /\ pc = "Classified" /\ analysis.query_type = "chapter_section_lookup"
    /\ \E scan \in ScanOutcomes, sem \in SemOutcomes :
          Handled(_handle_chapter_section_lookup(scan, sem, analysis, EffK))

HandleSection ==
    /\ pc = "Classified" /\ analysis.query_type = "section_lookup"
    /\ \E scan \in ScanOutcomes, sem \in SemOutcomes :
          Handled(_handle_section_lookup(scan, sem, analysis, EffK))

HandleChapter ==
    /\ pc = "Classified" /\ analysis.query_type = "chapter_lookup"
    /\ \E scan \in ScanOutcomes, sem \in SemOutcomes :
          Handled(_handle_chapter_lookup(scan, sem, analysis, EffK))

HandleRecital ==
    /\ pc = "Classified" /\ analysis.query_type = "recital_lookup"
    /\ \E scan \in ScanOutcomes, sem \in SemOutcomes :
          Handled(_handle_recital_lookup(scan, sem, analysis, EffK))

HandleExactReference ==
    /\ pc = "Classified" /\ analysis.query_type = "exact_reference"
    /\ \E s1 \in ScanOutcomes, s2 \in ScanOutcomes, s3 \in ScanOutcomes, sem \in SemOutcomes :
          Handled(_handle_exact_reference(<<s1, s2, s3>>, sem, analysis, EffK))

HandleArticleLookup ==
    /\ pc = "Classified" /\ analysis.query_type = "article_lookup"
    /\ \E scan \in ScanOutcomes, sem \in SemOutcomes :
          Handled(_handle_article_lookup(scan, sem, analysis, EffK))

HandleConceptual ==
    /\ pc = "Classified" /\ analysis.query_type = "conceptual"
    /\ \E sem \in SemOutcomes :
          Handled(_handle_conceptual(query, sem, analysis, EffK))

HandleComparison ==
    /\ pc = "Classified" /\ analysis.query_type = "comparison"
    /\ \E s1 \in ScanOutcomes, s2 \in ScanOutcomes, sem \in SemOutcomes :
          Handled(_handle_comparison(query, <<s1, s2>>, sem, analysis, EffK))

HandleGeneral ==
    /\ pc = "Classified"
    /\ analysis.query_type \notin
         {"chapter_section_lookup", "section_lookup", "chapter_lookup", "recital_lookup",
          "exact_reference", "article_lookup", "conceptual", "comparison"}
    /\ \E sem \in SemOutcomes : Handled(_handle_general(query, sem, EffK))

\* Step 3: `if not docs: docs = self._fallback_retrieval(query, k)`, then return
Fallback ==
    /\ pc = "Dispatched" /\ docs = << >>
    /\ \E sem \in SemOutcomes :
          LET h == _fallback_retrieval(query, sem, EffK)
          IN  /\ calls' = calls \o h.calls
              /\ IF h.raised
                 THEN pc' = "Failed" /\ UNCHANGED docs
                 ELSE pc' = "Resolved" /\ docs' = h.docs
    /\ UNCHANGED <<query, k, corpus, analysis, lines, parser, built, envVars>>

Return ==
    /\ pc = "Dispatched" /\ docs # << >>
    /\ pc' = "Resolved"
    /\ UNCHANGED <<query, k, corpus, analysis, docs, calls, lines, parser, built, envVars>>

\* the analysis object the except block hands back
RecoveryAnalysis(q) == QueryAnalysis("general", q)

\* the except block: basic semantic search and a generic analysis
Recover ==
    /\ pc = "Failed"
    /\ \E sem \in SemOutcomes :
          LET r == SemanticRetrieve(sem, EffK)
          IN  /\ calls' = Append(calls, SemCall("semantic.retrieve", "recover", query, EffK, r))
              /\ IF r.raised
                 THEN pc' = "Raised" /\ UNCHANGED <<docs, analysis>>
                 ELSE /\ pc' = "Resolved"
                      /\ docs' = r.docs
                      /\ analysis' = RecoveryAnalysis(query)
    /\ UNCHANGED <<query, k, corpus, lines, parser, built, envVars>>

----------------------------------------------------------------------------
(* ExactRetriever called directly by a client, on any analysis *)

ExactAnalyses ==
    {[QueryAnalysis("exact_reference", Q_Other) EXCEPT
        !.recital = r, !.article = a, !.subsection = sb, !.point = pt] :
        r \in {NONE, "42"}, a \in {NONE, "6", "7"}, sb \in {NONE, "1"}, pt \in {NONE, "a"}}

InitExact ==
    /\ query = Q_Other
    /\ k \in 0..MaxK
    /\ corpus \in Corpora
    /\ pc = "ExactReceived"
    /\ analysis \in ExactAnalyses
    /\ docs = << >>
    /\ calls = << >>
    /\ lines = << >>
    /\ parser = NoParser
    /\ built = << >>
    /\ index = "flaky"
    /\ pending = NoPending
    /\ api = NoApi
    /\ norm = NoNorm

CallExactRetrieve ==
    /\ pc = "ExactReceived"
    /\ \E scan \in ScanOutcomes :
          LET ds == ExactRetrieve(scan, analysis, k)
          IN  /\ docs' = ds
              /\ calls' = <<ExactCall("exact.retrieve", "client", query, k, ds)>>
    /\ pc' = "ExactReturned"
    /\ UNCHANGED <<query, k, corpus, analysis, lines, parser, built, envVars>>

CallRetrieveWithContext ==
    /\ pc = "ExactReceived"
    /\ \E s1 \in ScanOutcomes, s2 \in ScanOutcomes, s3 \in ScanOutcomes :
          LET ds == retrieve_with_context(<<s1, s2, s3>>, analysis, k)
          IN  /\ docs' = ds
              /\ calls' = <<ExactCall("exact.retrieve_with_context", "client", query, k, ds)>>
    /\ pc' = "ExactCtxReturned"
    /\ UNCHANGED <<query, k, corpus, analysis, lines, parser, built, envVars>>

Init == InitRouter \/ InitExact

Next ==
    \/ Analyze
    \/ HandleChapterSection
    \/ HandleSection
    \/ HandleChapter
    \/ HandleRecital
    \/ HandleExactReference
    \/ HandleArticleLookup
    \/ HandleConceptual
    \/ HandleComparison
    \/ HandleGeneral
    \/ Fallback
    \/ Return
    \/ Recover
    \/ CallExactRetrieve
    \/ CallRetrieveWithContext

Spec == Init /\ [][Next]_vars

----------------------------------------------------------------------------
(* Properties of the retrieval model *)

IsSemantic(c) == c.fn \in {"semantic.retrieve", "semantic.retrieve_with_metadata_boost"}
IsExact(c) == c.fn \in {"exact.retrieve", "exact.retrieve_with_context"}

\* C1: HybridRetriever.retrieve never raises: no exception leaves it, also
\* when analyze raises and every index call raises, and what it returns is a
\* list of documents together with a QueryAnalysis object.
C1_NeverRaises ==
    /\ pc # "Raised"
    /\ pc = "Resolved" => analysis # NoAnalysis /\ Len(docs) >= 0

\* analyze raised, the index raised in the except block, and retrieve returned
C1_Witness ==
    /\ pc = "Resolved" /\ AnalyzeRaises(query)
    /\ docs = << >> /\ analysis.query_type = "general"

\* C2: when classification throws, the analysis handed back is GENERAL with
\* the query text and confidence exactly 0.3, and the documents are those of
\* one pure semantic retrieval on the query.
C2_DegradedAnalysis ==
    (pc = "Resolved" /\ AnalyzeRaises(query)) =>
        /\ analysis.query_type = "general"
        /\ analysis.original_query = query
        /\ analysis.confidence = 30
        /\ Len(calls) = 1 /\ calls[1].fn = "semantic.retrieve"
        /\ calls[1].q = query /\ docs = calls[1].res

FallbackCalls == {j \in 1..Len(calls) : calls[j].role \in {"handler_fallback", "fallback"}}

\* C3: within one request the semantic fallback runs at most once: the
\* semantic retriever is not called again when its fallback answer is empty.
C3_FallbackOnce ==
    pc = "Resolved" => Cardinality(FallbackCalls) <= 1

ExactTypes == {"recital_lookup", "exact_reference", "article_lookup"}

RecitalInCorpus(r) == \E j \in 1..Len(corpus) : corpus[j].recital = r

\* C4: for RECITAL_LOOKUP, EXACT_REFERENCE and ARTICLE_LOOKUP the semantic
\* retriever is called only after the exact retriever returned an empty list;
\* a non-empty exact result is returned as it is with no semantic call; for a
\* recital absent from the corpus the exact result is empty and the router
\* returns the semantic retriever's result for the original query text.
C4_SemanticOnlyAfterExactMiss ==
    (pc \in {"Dispatched", "Resolved"} /\ analysis.query_type \in ExactTypes) =>
        /\ Len(calls) >= 1 /\ IsExact(calls[1])
        /\ \A j \in 1..Len(calls) : IsSemantic(calls[j]) => calls[1].res = << >> /\ j > 1
        /\ calls[1].res # << >> => docs = calls[1].res /\ Len(calls) = 1
        /\ (pc = "Resolved" /\ analysis.query_type = "recital_lookup"
              /\ ~RecitalInCorpus(analysis.recital)) =>
                /\ calls[1].res = << >>
                /\ IsSemantic(calls[Len(calls)])
                /\ calls[Len(calls)].q = query
                /\ docs = calls[Len(calls)].res

\* a recital absent from the corpus, answered by the semantic path
C4_Witness ==
    /\ pc = "Resolved" /\ analysis.query_type = "recital_lookup"
    /\ ~RecitalInCorpus(analysis.recital)
    /\ docs # << >> /\ Len(calls) = 2

\* C5: for every k >= 1 the list returned by ExactRetriever.retrieve, by
\* retrieve_with_context and by HybridRetriever.retrieve (every query type,
\* the comparison path, the error path) has at most k documents.
C5_AtMostK ==
    /\ pc = "Resolved" => Len(docs) <= EffK
    /\ (pc \in {"ExactReturned", "ExactCtxReturned"} /\ k >= 1) => Len(docs) <= k
    /\ \A j \in 1..Len(calls) : (IsExact(calls[j]) /\ calls[j].k >= 1) =>
          Len(calls[j].res) <= calls[j].k

\* a comparison request whose semantic answer plus backfill was cut to k
C5_Witness ==
    /\ pc = "Resolved" /\ analysis.query_type = "comparison"
    /\ Len(calls) = 3 /\ Len(calls[1].res) + Len(calls[2].res) > EffK
    /\ Len(docs) = EffK

HasArticleDoc(ds, a) == \E j \in 1..Len(ds) : ds[j].article = a

\* C6: on a corpus holding chunks of Article 6 and of Article 7 the query
\* "difference between Article 6 and Article 7" returns at least one chunk
\* tagged article 6 and one tagged article 7, whatever the semantic retriever
\* returns (stated here for the requests that return documents at all).
C6_BothArticlesReturned ==
    (pc = "Resolved" /\ query = Q_Difference /\ docs # << >>
        /\ HasArticleDoc(corpus, "6") /\ HasArticleDoc(corpus, "7")) =>
            HasArticleDoc(docs, "6") /\ HasArticleDoc(docs, "7")

PointChunk(d) == Truthy(d.point)
SubsectionChunk(d) == Truthy(d.subsection) /\ ~Truthy(d.point)
ArticleOnlyChunk(d) == Truthy(d.article) /\ ~Truthy(d.subsection) /\ ~Truthy(d.point)

\* position i of docs has to come before position j by the specificity rule
MoreSpecific(i, j) ==
    /\ docs[i].article = docs[j].article
    /\ \/ PointChunk(docs[i]) /\ SubsectionChunk(docs[j])
       \/ SubsectionChunk(docs[i]) /\ ArticleOnlyChunk(docs[j])

\* C8 as claimed: in every list ExactRetriever.retrieve returns, a chunk with
\* a point tag comes before every chunk of the same article with a subsection
\* tag and no point tag, and such a chunk before every chunk of that article
\* with the article tag only.
C8_SpecificityOrder ==
    pc = "ExactReturned" =>
        \A i, j \in 1..Len(docs) : MoreSpecific(i, j) => i < j

\* C8 as amended: the specificity order holds between two chunks that both
\* are, or both are not, at the level the analysis asks for.
C8_SpecificityOrderWithinLevelMatch ==
    pc = "ExactReturned" =>
        \A i, j \in 1..Len(docs) :
            (MoreSpecific(i, j)
               /\ level_match(docs[i], analysis) = level_match(docs[j], analysis)) => i < j

\* a returned list where a point chunk met a subsection chunk scanned before it
C8_Witness ==
    /\ pc = "ExactReturned"
    /\ \E i, j \in 1..Len(docs) :
          /\ MoreSpecific(i, j) /\ i < j
          /\ level_match(docs[i], analysis) = level_match(docs[j], analysis)
          /\ \E a, b \in 1..Len(corpus) : a < b /\ corpus[a] = docs[j] /\ corpus[b] = docs[i]

\* the fields of the analysis the claim puts into the filter
FilterFields(an) ==
    IF Truthy(an.recital) THEN {"recital"}
    ELSE {key \in {"article", "subsection", "point"} : Truthy(Meta(an, key))}

\* C24: every chunk returned by ExactRetriever.retrieve equals the analysis,
\* as strings, on every key of the filter: the recital alone when the analysis
\* has a recital (its other fields are ignored), else each of article,
\* subsection and point that is set; with none of the four set the list is
\* empty.
C24_ReturnedMatchFilter ==
    pc = "ExactReturned" =>
        /\ \A j \in 1..Len(docs) : \A key \in FilterFields(analysis) :
              Str(Meta(docs[j], key)) = Str(Meta(analysis, key))
        /\ FilterFields(analysis) = {} => docs = << >>

\* a recital was returned for an analysis that also names an article and a point
C24_Witness ==
    /\ pc = "ExactReturned" /\ docs # << >>
    /\ Truthy(analysis.recital) /\ Truthy(analysis.article) /\ Truthy(analysis.point)
    /\ docs[1].recital = analysis.recital

\* the level the claim takes as the target of the query
TargetLevel(an) ==
    CASE Truthy(an.recital) -> "recital"
      [] ~Truthy(an.recital) /\ Truthy(an.point) -> "point"
      [] ~Truthy(an.recital) /\ ~Truthy(an.point) /\ Truthy(an.subsection) -> "subsection"
      [] OTHER -> "article"

\* C25: in every list returned by ExactRetriever.retrieve no chunk whose level
\* differs from the target level of the query comes before a chunk whose level
\* equals it; the level match goes before the specificity score.
C25_LevelMatchFirst ==
    pc = "ExactReturned" =>
        \A i, j \in 1..Len(docs) :
            (docs[i].level # TargetLevel(analysis) /\ docs[j].level = TargetLevel(analysis))
                => j < i

\* a subsection chunk at the target level ahead of a point chunk of higher score
C25_Witness ==
    /\ pc = "ExactReturned"
    /\ \E i, j \in 1..Len(docs) :
          /\ i < j
          /\ docs[i].level = TargetLevel(analysis) /\ docs[j].level # TargetLevel(analysis)
          /\ specificity_score(docs[j]) > specificity_score(docs[i])

\* C18: when every index call raises, for the primary retrieval and for the
\* fallback, retrieve returns an empty list together with an analysis whose
\* query_type is GENERAL and whose confidence is the low degraded value (0.3),
\* whatever the query was classified as.
C18_IndexDownAnalysis ==
    (pc = "Resolved" /\ index = "down") =>
        /\ docs = << >>
        /\ analysis.query_type = "general"
        /\ analysis.confidence <= 30

----------------------------------------------------------------------------
(* IngestionPipeline.run as a state machine.                               *)
(*   Loaded -> Scanning -> Ingested | IngestFailed                         *)

SourceLines ==
    {Line("adopted", "HAVE ADOPTED THIS REGULATION", 30),
     Line("chapter", "I", 9), Line("chapter", "II", 10),
     Line("section", "1", 9),
     Line("article", "1", 9), Line("article", "2", 9),
     Line("recital", "1", 24), Line("recital", "2", 24), Line("recital", "1", 1604),
     Line("subsection", "1", 23), Line("point", "a", 24),
     Line("text", "t", 20), Line("text", "T", 250),
     Line("blank", "", 0)}

InitIngest ==
    /\ lines \in SeqsUpTo(SourceLines, MaxLines)
    /\ parser = NoParser
    /\ built = << >>
    /\ index = "flaky"
    /\ pending = NoPending
    /\ api = NoApi
    /\ norm = NoNorm
    /\ pc = "Loaded"
    /\ query = << >>
    /\ k = 0
    /\ corpus = << >>
    /\ analysis = NoAnalysis
    /\ docs = << >>
    /\ calls = << >>

retrievalVars == <<query, k, corpus, analysis, docs, calls>>

\* the pages are flattened into the line stream
StartScan ==
    /\ pc = "Loaded"
    /\ parser' = [NoParser EXCEPT !.all_lines = FlattenPages(lines)]
    /\ pc' = "Scanning"
    /\ UNCHANGED <<lines, built, retrievalVars, envVars>>

ScanLine ==
    /\ pc = "Scanning" /\ parser.i < Len(parser.all_lines)
    /\ parser' = ScanStep(parser)
    /\ UNCHANGED <<pc, lines, built, retrievalVars, envVars>>

\* the stream is exhausted: the last structure is flushed, the chunks are
\* built, converted and split; an exception fails the run (ParsingError,
\* wrapped in DataIngestionError)
FinishIngest ==
    /\ pc = "Scanning" /\ parser.i >= Len(parser.all_lines)
    /\ LET structures == WithFlushed(parser)
           made == create_chunks_from_articles(structures)
           base_documents == [j \in 1..Len(made.chunks) |->
                                 to_langchain_document(made.chunks[j])]
       IN  /\ parser' = [parser EXCEPT !.structures = structures]
           /\ IF made.raised
              THEN pc' = "IngestFailed" /\ UNCHANGED built
              ELSE pc' = "Ingested" /\ built' = split_documents(base_documents)
    /\ UNCHANGED <<lines, retrievalVars, envVars>>

NextIngest == StartScan \/ ScanLine \/ FinishIngest

SpecIngest == InitIngest /\ [][NextIngest]_vars

\* C9: after ingestion of any source text no two entries of the corpus carry
\* the same chunk_id, also when a recital number occurs more than once and
\* when a chunk is longer than the splitter's chunk size.
C9_UniqueChunkIds ==
    pc = "Ingested" =>
        \A a, b \in 1..Len(built) : built[a].chunk_id = built[b].chunk_id => a = b

ArticleFamily(d) ==
    {d.chapter, d.chapter_title, d.section, d.section_title, d.article,
     d.article_title, d.subsection, d.point}

\* C10: every chunk built for a recital structure has recital set and the
\* chapter, section, article, subsection and point fields (titles included)
\* unset; no document of the built corpus has both recital and article set.
C10_RecitalExclusive ==
    pc = "Ingested" =>
        /\ \A j \in 1..Len(built) :
              built[j].level = "recital" =>
                  Truthy(built[j].recital) /\ ArticleFamily(built[j]) = {NONE}
        /\ \A j \in 1..Len(built) : ~(Truthy(built[j].recital) /\ Truthy(built[j].article))
        /\ Len(built) >= Cardinality({j \in 1..Len(parser.structures) :
                                        parser.structures[j].is_recital})

\* a corpus was built from a source with a recital
C10_Witness ==
    /\ pc = "Ingested" /\ Len(built) >= 1
    /\ \E j \in 1..Len(parser.structures) :
          parser.structures[j].is_recital /\ built[j].recital = parser.structures[j].id

\* what the Chunk Builder makes of the structures of the run
BuiltChunks == create_chunks_from_articles(parser.structures)

RecitalStructures(id) ==
    {j \in 1..Len(parser.structures) :
        parser.structures[j].is_recital /\ parser.structures[j].id = id}

\* C11: for each recital structure with id N the Chunk Builder emits exactly
\* one chunk, at RECITAL level, with reference {recital: N} and chunk_id
\* "recital_N" (as many such chunks as there are recital structures numbered N).
C11_RecitalChunk ==
    pc = "Ingested" =>
        \A j \in 1..Len(parser.structures) :
            parser.structures[j].is_recital =>
                LET id == parser.structures[j].id
                    chunks == BuiltChunks.chunks
                IN  Cardinality({c \in 1..Len(chunks) :
                                    /\ chunks[c].level = "recital"
                                    /\ chunks[c].reference.recital = id
                                    /\ chunks[c].chunk_id = "recital_" \o id})
                        = Cardinality(RecitalStructures(id))

RECURSIVE PointsIn(_)
PointsIn(subsections) ==
    IF subsections = << >> THEN 0
    ELSE Len(subsections[1].points) + PointsIn(Tail(subsections))

\* 1 per recital, 1 + s + p per article with s subsections and p points
RECURSIVE ExpectedChunks(_)
ExpectedChunks(structures) ==
    IF structures = << >> THEN 0
    ELSE (IF structures[1].is_recital THEN 1
          ELSE 1 + Len(structures[1].subsections) + PointsIn(structures[1].subsections))
         + ExpectedChunks(Tail(structures))

\* C12: for each article structure with s subsections holding p points,
\* create_chunks_from_articles completes without error and emits 1 + s + p
\* chunks: the article chunk, one chunk per subsection, one chunk per point.
C12_ArticleChunks ==
    pc \in {"Ingested", "IngestFailed"} =>
        /\ ~BuiltChunks.raised
        /\ Len(BuiltChunks.chunks) = ExpectedChunks(parser.structures)

\* the claim's trigger lines: the adoption phrase, a chapter heading numbered
\* 1 or I, an article heading numbered exactly 1
TriggerLine(line) ==
    \/ line.kind = "adopted"
    \/ line.kind = "chapter" /\ line.id \in {"1", "I", "i"}
    \/ line.kind = "article" /\ line.id = "1"

\* position of the first trigger line of the stream, 0 when there is none
FirstTrigger(all_lines) ==
    IF \E j \in 1..Len(all_lines) : TriggerLine(all_lines[j])
    THEN CHOOSE j \in 1..Len(all_lines) :
            TriggerLine(all_lines[j]) /\ \A h \in 1..(j - 1) : ~TriggerLine(all_lines[h])
    ELSE 0

\* after the scanner has processed the lines up to position i it is in
\* the recital phase exactly when none of them is a trigger line; a recital
\* structure is only ever the current structure in the recital phase or opened
\* before the first trigger line, and in the output list every recital
\* precedes every article.
C19_PhaseFlag ==
    pc \in {"Scanning", "Ingested", "IngestFailed"} =>
        /\ parser.in_regulation_phase
             = (\A j \in 1..parser.i : j <= Len(parser.all_lines)
                                          => ~TriggerLine(parser.all_lines[j]))
        /\ \A a, b \in 1..Len(parser.structures) :
              (parser.structures[a].is_recital /\ ~parser.structures[b].is_recital) => a < b
        /\ Cardinality({j \in 1..Len(parser.structures) : parser.structures[j].is_recital})
             + (IF parser.current_struct.is_recital /\ pc = "Scanning" THEN 1 ELSE 0)
             <= Cardinality({j \in 1..Len(parser.all_lines) :
                               /\ parser.all_lines[j].kind = "recital"
                               /\ (FirstTrigger(parser.all_lines) = 0
                                     \/ j < FirstTrigger(parser.all_lines))})

\* once the legislative phase is entered it is never left
PhaseMonotone ==
    [][(pc = "Scanning" /\ ~parser.in_regulation_phase) => ~parser'.in_regulation_phase]_vars

\* C19: the phase flag is exactly triggered (the recital phase lasts until the
\* first trigger line) and monotone (the legislative phase is never left), so
\* no recital is opened after the first trigger line and every recital of the
\* output precedes every article.
C19_PhaseExactAndMonotone == []C19_PhaseFlag /\ PhaseMonotone

\* a recital line met after the trigger line, with a recital opened before it
C19_Witness ==
    /\ pc = "Ingested" /\ ~parser.in_regulation_phase
    /\ Len(parser.structures) = 1 /\ parser.structures[1].is_recital
    /\ \E j \in 1..Len(parser.all_lines) :
          parser.all_lines[j].kind = "recital" /\ j > FirstTrigger(parser.all_lines)

\* the article heading lines at and after the first trigger line
HeadingLines(all_lines) ==
    LET start == FirstTrigger(all_lines)
        tail == IF start = 0 THEN << >> ELSE SubSeq(all_lines, start, Len(all_lines))
        isHeading(line) == line.kind = "article"
    IN  Filter(tail, isHeading)

ArticleStructures(structures) ==
    LET isArticle(struct) == ~struct.is_recital
    IN  Filter(structures, isArticle)

\* C20: in the legislative phase every line matching the article heading
\* pattern opens a new ArticleStructure with that article's id, also when it
\* directly follows another article heading: the output holds one article
\* structure per article heading line, in order.
C20_StructurePerHeading ==
    pc \in {"Ingested", "IngestFailed"} =>
        LET headings == HeadingLines(parser.all_lines)
            articles == ArticleStructures(parser.structures)
        IN  [j \in 1..Len(articles) |-> articles[j].id]
              = [j \in 1..Len(headings) |-> headings[j].id]

\* the line under the scanner's index opens a structure: a recital marker
\* while the recital phase lasts, an article heading once it is over
OpensStructure(ps) ==
    LET line == ps.all_lines[ps.i + 1]
        recital_phase == ps.in_regulation_phase /\ ~TriggerLine(line)
    IN  \/ recital_phase /\ line.kind = "recital"
        \/ ~recital_phase /\ line.kind = "article"

\* a structure as it must appear in the output: an article with the
\* subsections of its text, a recital with none
AsOutput(struct) ==
    IF struct.is_recital THEN [struct EXCEPT !.subsections = << >>]
    ELSE [struct EXCEPT !.subsections = _parse_subsections(struct.full_text)]

OutputWith(ps) ==
    IF ps.current_struct = NoStruct THEN ps.structures
    ELSE Append(ps.structures, AsOutput(ps.current_struct))

\* one step of the scanner or its end, as the claim describes it
StructureStep ==
    (pc = "Scanning" /\ parser' # parser) =>
        IF pc' # "Scanning" THEN
            \* stream exhaustion: the last open structure is flushed
            parser'.structures = OutputWith(parser)
        ELSE IF OpensStructure(parser) THEN
            /\ parser'.structures = OutputWith(parser)
            /\ parser'.current_struct # NoStruct
            /\ parser'.current_struct.id = parser.all_lines[parser.i + 1].id
            /\ parser'.current_struct.is_recital = parser.in_regulation_phase'
            /\ parser'.current_struct.subsections = << >>
        ELSE
            /\ parser'.structures = parser.structures
            /\ parser'.current_struct.id = parser.current_struct.id
            /\ parser'.current_struct.is_recital = parser.current_struct.is_recital
            /\ parser'.current_struct.subsections = << >>
            /\ (parser.current_struct.is_recital /\ ~parser'.in_regulation_phase)
                  => parser'.current_struct.full_text = parser.current_struct.full_text

\* C21: every structure the scanner opens is appended to the output exactly
\* once, in the order opened: when the next structure is opened or, for the
\* last one, at stream exhaustion; a recital still open when the legislative
\* phase starts is neither lost nor extended by later lines; the subsections
\* of an article are extracted at its flush and a recital keeps none.
C21_FlushedOnceInOrder == [][StructureStep]_vars

\* a recital left open at the phase switch, followed by an article with a
\* subsection, both in the output
C21_Witness ==
    /\ pc = "IngestFailed"
    /\ Len(parser.structures) = 2
    /\ parser.structures[1].is_recital /\ parser.structures[1].subsections = << >>
    /\ Len(parser.structures[1].full_text) = 1
    /\ ~parser.structures[2].is_recital /\ parser.structures[2].subsections # << >>

\* the run with its steps taken as long as one is possible: the while loop
\* and the calls after it are sequential code
SpecIngestFair == SpecIngest /\ WF_vars(NextIngest)

\* an iteration moves the index on by one line, or by two when the line is a
\* heading of the legislative phase whose lookahead took the next line as
\* its title
AdvanceStep ==
    (pc = "Scanning" /\ pc' = "Scanning" /\ parser' # parser) =>
        LET line == parser.all_lines[parser.i + 1]
            next == parser.all_lines[parser.i + 2]
        IN  \/ parser'.i = parser.i + 1
            \/ /\ parser'.i = parser.i + 2
               /\ parser.i + 2 <= Len(parser.all_lines)
               /\ ~parser'.in_regulation_phase
               /\ \/ line.kind = "chapter" /\ parser'.current_chapter_title = next.id
                  \/ line.kind = "section" /\ parser'.current_section_title = next.id
                  \/ line.kind = "article" /\ parser'.current_struct.title = next

ScanDone == pc \in {"Ingested", "IngestFailed"}

\* the index stays within the stream, and a stream without recital marker
\* and article heading gives no structure and no error
ScanInBounds ==
    /\ pc = "Scanning" => parser.i <= Len(parser.all_lines)
    /\ pc = "Scanning" => parser.all_lines = FlattenPages(lines)
    /\ (ScanDone /\ \A j \in 1..Len(lines) : lines[j].kind \notin {"recital", "article"})
          => parser.structures = << >> /\ pc = "Ingested" /\ built = << >>

\* C29: extract_document_structure terminates without raising on every finite
\* sequence of pages: each iteration advances the line index by one or two
\* (two only when a lookahead title line is consumed), no line is skipped, and
\* an empty input or one without recital marker and article heading gives an
\* empty list.
C29_ScanTerminates == [][AdvanceStep]_vars /\ []ScanInBounds /\ <>ScanDone

\* a stream with a chapter heading and its title, and no structure
C29_Witness ==
    /\ pc = "Ingested" /\ parser.structures = << >>
    /\ parser.current_chapter_title # NONE
    /\ parser.i = Len(parser.all_lines) /\ parser.i >= 2

----------------------------------------------------------------------------
(* The scanner on documents made of headings that each carry a title line  *)
(* ("CHAPTER II" / "Principles", "Section 1" / "Transparency",             *)
(* "Article 5" / "Principles relating to processing"), the layout the      *)
(* title lookaheads are written for.                                       *)

HeadingBlock(kind, id) == <<Line(kind, id, 9), Line("text", "title", 18)>>

TagBlocks ==
    {HeadingBlock("chapter", "I"), HeadingBlock("chapter", "II"),
     HeadingBlock("section", "1"),
     HeadingBlock("article", "1"), HeadingBlock("article", "2")}

RECURSIVE Concat(_)
Concat(blocks) == IF blocks = << >> THEN << >> ELSE blocks[1] \o Concat(Tail(blocks))

InitTagged ==
    /\ lines \in {Concat(blocks) : blocks \in SeqsUpTo(TagBlocks, MaxBlocks)}
    /\ parser = NoParser
    /\ built = << >>
    /\ index = "flaky"
    /\ pending = NoPending
    /\ api = NoApi
    /\ norm = NoNorm
    /\ pc = "Loaded"
    /\ query = << >>
    /\ k = 0
    /\ corpus = << >>
    /\ analysis = NoAnalysis
    /\ docs = << >>
    /\ calls = << >>

SpecTagged == InitTagged /\ [][NextIngest]_vars

MaxOf(S) == CHOOSE x \in S : \A y \in S : y <= x

\* the positions of the article headings of the legislative phase, in order
ArticleHeadingPositions(all_lines) ==
    LET start == FirstTrigger(all_lines)
        isHeading(j) == start > 0 /\ j >= start /\ all_lines[j].kind = "article"
    IN  Filter([j \in 1..Len(all_lines) |-> j], isHeading)

\* the chapter headings of the legislative phase before position a
ChaptersBefore(all_lines, a) ==
    {c \in FirstTrigger(all_lines)..(a - 1) : c > 0 /\ all_lines[c].kind = "chapter"}

\* the id of the latest chapter heading before position a
ChapterAt(all_lines, a) ==
    LET cs == ChaptersBefore(all_lines, a)
    IN  IF cs = {} THEN NONE ELSE all_lines[MaxOf(cs)].id

\* the id of the latest section heading between that chapter heading and a
SectionAt(all_lines, a) ==
    LET cs == ChaptersBefore(all_lines, a)
        from == IF cs = {} THEN FirstTrigger(all_lines) ELSE MaxOf(cs)
        ss == {x \in from..(a - 1) : x > 0 /\ all_lines[x].kind = "section"}
    IN  IF ss = {} THEN NONE ELSE all_lines[MaxOf(ss)].id

\* C22: every article structure is tagged with the chapter and section active
\* at its heading: the id of the latest chapter heading before it (unset if
\* none) and the id of the latest section heading after that chapter heading
\* (unset if the chapter has had none); never a section of an earlier chapter.
C22_ArticleTags ==
    pc \in {"Ingested", "IngestFailed"} =>
        LET positions == ArticleHeadingPositions(parser.all_lines)
            articles == ArticleStructures(parser.structures)
        IN  /\ Len(articles) = Len(positions)
            /\ \A j \in 1..Len(articles) :
                  /\ articles[j].chapter = ChapterAt(parser.all_lines, positions[j])
                  /\ articles[j].section = SectionAt(parser.all_lines, positions[j])

----------------------------------------------------------------------------
(* _parse_subsections at the flush of an article whose text is any sequence *)
(* of numbered, lettered and unmarked lines.                                *)

ArticleTextLines ==
    {Line("subsection", "1", 23), Line("subsection", "2", 30),
     Line("point", "a", 24), Line("point", "b", 12),
     Line("text", "t", 20)}

InitSubsections ==
    /\ \E text_lines \in SeqsUpTo(ArticleTextLines, MaxTextLines) :
          lines = <<Line("article", "1", 9), Line("text", "title", 18)>> \o text_lines
    /\ parser = NoParser
    /\ built = << >>
    /\ index = "flaky"
    /\ pending = NoPending
    /\ api = NoApi
    /\ norm = NoNorm
    /\ pc = "Loaded"
    /\ query = << >>
    /\ k = 0
    /\ corpus = << >>
    /\ analysis = NoAnalysis
    /\ docs = << >>
    /\ calls = << >>

SpecSubsections == InitSubsections /\ [][NextIngest]_vars

\* the positions of lo..hi holding a line of the given kind, in order
PositionsOf(T, kind, lo, hi) ==
    LET isKind(j) == lo <= j /\ j <= hi /\ T[j].kind = kind
    IN  Filter([j \in 1..Len(T) |-> j], isKind)

\* the last position of the run of unmarked lines that follows position at
RunEnd(T, at, hi) ==
    LET marked == {j \in (at + 1)..hi : T[j].kind \in {"subsection", "point"}}
    IN  IF marked = {} THEN hi ELSE (CHOOSE j \in marked : \A h \in marked : j <= h) - 1

\* a marked line with the unmarked lines that follow it
MarkedText(T, at, hi) == <<Content(T[at])>> \o SubSeq(T, at + 1, RunEnd(T, at, hi))

PointsBetween(T, lo, hi) ==
    LET at == PositionsOf(T, "point", lo, hi)
    IN  [j \in 1..Len(at) |-> Point(T[at[j]].id, MarkedText(T, at[j], hi))]

\* the tree the rules of the claim give for the lines T
SubsectionTree(T) ==
    LET starts == PositionsOf(T, "subsection", 1, Len(T))
        n == Len(starts)
        end(j) == IF j < n THEN starts[j + 1] - 1 ELSE Len(T)
        leading == PointsBetween(T, 1, IF n = 0 THEN Len(T) ELSE starts[1] - 1)
    IN  (IF leading = << >> THEN << >> ELSE <<Subsection("0", << >>, leading)>>)
        \o [j \in 1..n |->
              Subsection(T[starts[j]].id, MarkedText(T, starts[j], end(j)),
                         PointsBetween(T, starts[j], end(j)))]

\* C23: _parse_subsections builds the tree by these rules and no others: a
\* "<digits>. " line closes the open subsection and opens the next; a
\* "(<letter>) " line adds a point to the open subsection, opening "0" first
\* if none is open; an unmarked line goes to the last point of the open
\* subsection, else to its text, else is dropped; source order is kept and
\* each point lies in one subsection.
C23_SubsectionTree ==
    (pc = "IngestFailed" /\ Len(parser.structures) = 1) =>
        /\ parser.structures[1].full_text = SubSeq(lines, 3, Len(lines))
        /\ parser.structures[1].subsections = SubsectionTree(SubSeq(lines, 3, Len(lines)))

\* a leading point with a continuation line, then a numbered subsection
C23_Witness ==
    /\ pc = "IngestFailed" /\ Len(parser.structures) = 1
    /\ Len(parser.structures[1].subsections) = 2
    /\ parser.structures[1].subsections[1].number = "0"
    /\ Len(parser.structures[1].subsections[1].points[1].text) = 2

----------------------------------------------------------------------------
(* ExactRetriever.retrieve_with_context called on an index that answers,   *)
(* for k up to the default of the call (3).                                *)

InitContext ==
    /\ query = Q_Other
    /\ k \in 0..(MaxK + 1)
    /\ corpus \in Corpora
    /\ pc = "ExactReceived"
    /\ analysis \in ExactAnalyses
    /\ docs = << >>
    /\ calls = << >>
    /\ lines = << >>
    /\ parser = NoParser
    /\ built = << >>
    /\ index = "up"
    /\ pending = NoPending
    /\ api = NoApi
    /\ norm = NoNorm

NextContext == CallRetrieveWithContext

SpecContext == InitContext /\ [][NextContext]_vars

\* the chunk d is the chunk of the given level on the path of the analysis
OnPath(d, an, level) ==
    /\ d.level = level
    /\ d.article = an.article
    /\ level \in {"subsection", "point"} => d.subsection = an.subsection
    /\ level = "point" => d.point = an.point

InCorpus(an, level) == \E j \in 1..Len(corpus) : OnPath(corpus[j], an, level)

\* C26: for an analysis naming article, subsection and point, on a corpus that
\* holds the point, subsection and article chunks of the path,
\* retrieve_with_context with k >= 3 returns exactly these three, in the order
\* point, subsection, article, no chunk_id twice; for article and subsection
\* only it returns the subsection chunk, then the article chunk; for a recital
\* analysis at most the one recital chunk and no parent.
C26_ContextExpansion ==
    pc = "ExactCtxReturned" =>
        /\ (/\ ~Truthy(analysis.recital) /\ Truthy(analysis.article)
             /\ Truthy(analysis.subsection) /\ Truthy(analysis.point)
             /\ k >= 3
             /\ \A level \in {"point", "subsection", "article"} : InCorpus(analysis, level))
            => /\ Len(docs) = 3
               /\ OnPath(docs[1], analysis, "point")
               /\ OnPath(docs[2], analysis, "subsection")
               /\ OnPath(docs[3], analysis, "article")
               /\ Cardinality({docs[j].chunk_id : j \in 1..3}) = 3
        /\ (/\ ~Truthy(analysis.recital) /\ Truthy(analysis.article)
             /\ Truthy(analysis.subsection) /\ ~Truthy(analysis.point)
             /\ k >= 2
             /\ \A level \in {"subsection", "article"} : InCorpus(analysis, level))
            => /\ Len(docs) = 2
               /\ OnPath(docs[1], analysis, "subsection")
               /\ OnPath(docs[2], analysis, "article")
        /\ Truthy(analysis.recital)
            => /\ Len(docs) <= 1
               /\ \A j \in 1..Len(docs) :
                     docs[j].level = "recital" /\ docs[j].recital = analysis.recital

\* the three chunks of a path came back for a point reference
C26_Witness ==
    /\ pc = "ExactCtxReturned" /\ k >= 3
    /\ Truthy(analysis.point) /\ ~Truthy(analysis.recital)
    /\ Len(docs) = 3
    /\ OnPath(docs[1], analysis, "point") /\ OnPath(docs[3], analysis, "article")
    /\ corpus[1].level = "article"

\* no chunk of the corpus carries the article, subsection and point asked for
RequestedNodeAbsent ==
    \A j \in 1..Len(corpus) :
        ~(/\ Str(corpus[j].article) = Str(analysis.article)
          /\ Str(corpus[j].subsection) = Str(analysis.subsection)
          /\ Truthy(analysis.point) => Str(corpus[j].point) = Str(analysis.point))

\* C30: a reference whose requested node (the point, or the subsection when no
\* point is named) has no chunk is an exact miss: retrieve_with_context returns
\* an empty list even when the parent subsection or article exists, so that
\* the router goes to the semantic fallback and never answers with parents
\* alone.
C30_MissReturnsNothing ==
    (/\ pc = "ExactCtxReturned"
     /\ ~Truthy(analysis.recital)
     /\ Truthy(analysis.article) /\ Truthy(analysis.subsection)
     /\ RequestedNodeAbsent)
        => docs = << >>

----------------------------------------------------------------------------
(* Chapter id normalization: QueryAnalyzer._normalize_chapter_id and        *)
(* VectorStoreManager._normalize_chapter applied to a chapter id, and again *)
(* to the result.                                                           *)

\* VectorStoreManager._normalize_chapter
_normalize_chapter(chapter_str) == roman_to_arabic(Upper(Str(chapter_str)), Str(chapter_str))

NormalizeAt(site, x) ==
    IF site = "analyzer" THEN _normalize_chapter_id(x) ELSE _normalize_chapter(x)

\* the written forms of chapter n: Roman in upper, lower and mixed case, Arabic
RomanUpper == <<"I", "II", "III", "IV", "V", "VI", "VII", "VIII", "IX", "X", "XI">>
RomanLower == <<"i", "ii", "iii", "iv", "v", "vi", "vii", "viii", "ix", "x", "xi">>
RomanMixed == <<{}, {"Ii", "iI"}, {}, {"Iv", "iV"}, {}, {"Vi", "vI"}, {}, {},
                {"Ix", "iX"}, {}, {"Xi", "xI"}>>

RomanForms(n) == {RomanUpper[n], RomanLower[n]} \cup RomanMixed[n]
ChapterForms(n) == RomanForms(n) \cup {NumStr(n)}

ChapterIds == UNION {ChapterForms(n) : n \in 1..Len(RomanUpper)}

InitNormalize ==
    /\ norm \in {[NoNorm EXCEPT !.site = site, !.x = x] :
                    site \in {"analyzer", "manager"}, x \in ChapterIds}
    /\ index = "flaky"
    /\ pending = NoPending
    /\ api = NoApi
    /\ pc = "Normalizing"
    /\ query = << >>
    /\ k = 0
    /\ corpus = << >>
    /\ analysis = NoAnalysis
    /\ docs = << >>
    /\ calls = << >>
    /\ lines = << >>
    /\ parser = NoParser
    /\ built = << >>

normOther == <<query, k, corpus, pc, analysis, docs, calls, lines, parser, built,
               index, pending, api>>

NormalizeOnce ==
    /\ pc = "Normalizing" /\ norm.once = NONE
    /\ norm' = [norm EXCEPT !.once = NormalizeAt(norm.site, norm.x)]
    /\ UNCHANGED normOther

NormalizeTwice ==
    /\ pc = "Normalizing" /\ norm.once # NONE /\ norm.twice = NONE
    /\ norm' = [norm EXCEPT !.twice = NormalizeAt(norm.site, norm.once)]
    /\ UNCHANGED normOther

NextNormalize == NormalizeOnce \/ NormalizeTwice

SpecNormalize == InitNormalize /\ [][NextNormalize]_vars

\* C13: chapter id normalization is idempotent on the ids I..XI and 1..11,
\* maps each Roman id, in either letter case, to the Arabic id of the same
\* chapter and leaves each Arabic id unchanged.
C13_NormalizeIdempotent ==
    /\ norm.once # NONE =>
          \A n \in 1..Len(RomanUpper) : norm.x \in ChapterForms(n) => norm.once = NumStr(n)
    /\ norm.twice # NONE => norm.twice = norm.once

\* a lower-case Roman id normalized twice
C13_Witness ==
    /\ norm.x = "iv" /\ norm.once = "4" /\ norm.twice = "4"

----------------------------------------------------------------------------
(* Chapter lookups on a corpus whose chapter tag is stored as the source    *)
(* heading wrote it: the parser keeps group(1) of the heading pattern       *)
(* "^CHAPTER\s+([IVX\d]+)" (IGNORECASE) unchanged.                          *)

ChapterNumbers == {4, 5, 11}

\* the chunks of two articles of the chapter, tagged with the stored form,
\* and a chunk of another chapter
ChapterCorpus(stored) ==
    <<Doc("article_6", "article", NONE, stored, "3", "6", NONE, NONE, "c1"),
      Doc("article_6_1", "subsection", NONE, stored, "3", "6", "1", NONE, "c2"),
      Doc("article_7", "article", NONE, stored, "3", "7", NONE, NONE, "c4"),
      Doc("article_2", "article", NONE, "1", "3", "2", NONE, NONE, "c8")>>

ChapterQuery(kind, written) ==
    IF kind = "chapter" THEN <<Word("which article"), Chap(written)>>
    ELSE <<Chap(written), Sec("3")>>

InitChapter ==
    /\ \E n \in ChapterNumbers, kind \in {"chapter", "chapter_section"} :
          \E stored \in ChapterForms(n), written \in ChapterForms(n) :
              /\ corpus = ChapterCorpus(stored)
              /\ query = ChapterQuery(kind, written)
    /\ k \in 0..MaxK
    /\ index = "up"
    /\ pc = "Received"
    /\ analysis = NoAnalysis
    /\ docs = << >>
    /\ calls = << >>
    /\ lines = << >>
    /\ parser = NoParser
    /\ built = << >>
    /\ pending = NoPending
    /\ api = NoApi
    /\ norm = NoNorm

NextChapter == Analyze \/ HandleChapterSection \/ HandleChapter \/ Fallback \/ Return

SpecChapter == InitChapter /\ [][NextChapter]_vars

\* the chapter number the query asks for, whatever form it is written in
AskedChapter(q) ==
    LET j == CHOOSE h \in 1..Len(q) : q[h].t = "chapter"
    IN  CHOOSE n \in 1..Len(RomanUpper) : q[j].n \in ChapterForms(n)

\* C14: for every chapter, whichever form the query uses and whichever form
\* the parser stored from the heading (Roman or Arabic, any letter case), a
\* chapter lookup and a chapter+section lookup select the chunks of that
\* chapter: the handler finds the group (no semantic fallback) and every
\* returned chunk carries that chapter's tag.
C14_ChapterSelected ==
    (pc \in {"Dispatched", "Resolved"}
        /\ analysis.query_type \in {"chapter_lookup", "chapter_section_lookup"}) =>
        /\ calls = << >>
        /\ docs # << >>
        /\ \A j \in 1..Len(docs) : docs[j].chapter \in ChapterForms(AskedChapter(query))

----------------------------------------------------------------------------
(* Section, chapter and chapter+section lookups on a group of several      *)
(* articles, some of them with subsection and point chunks.                *)

GroupUniverse ==
    <<D_A6, D_A6_1, D_A6_1_a, D_A7, D_A7_1,
      Doc("article_9", "article", NONE, "IV", "3", "9", NONE, NONE, "c9"),
      Doc("article_10", "article", NONE, "IV", "3", "10", NONE, NONE, "c10")>>

RECURSIVE PickFrom(_, _, _)
PickFrom(U, S, from) ==
    IF from > Len(U) THEN << >>
    ELSE (IF from \in S THEN <<U[from]>> ELSE << >>) \o PickFrom(U, S, from + 1)

GroupCorpora ==
    LET subsets == {S \in SUBSET (1..Len(GroupUniverse)) : Cardinality(S) <= MaxGroupDocs}
    IN  {PickFrom(GroupUniverse, S, 1) : S \in subsets}
        \cup {Reverse(PickFrom(GroupUniverse, S, 1)) : S \in subsets}

InitGroup ==
    /\ corpus \in GroupCorpora
    /\ query \in {Q_Section, Q_Chapter, Q_ChapterSection}
    /\ k \in {0, Len(GroupUniverse)}
    /\ index = "up"
    /\ pc = "Received"
    /\ analysis = NoAnalysis
    /\ docs = << >>
    /\ calls = << >>
    /\ lines = << >>
    /\ parser = NoParser
    /\ built = << >>
    /\ pending = NoPending
    /\ api = NoApi
    /\ norm = NoNorm

NextGroup ==
    \/ Analyze
    \/ HandleChapterSection
    \/ HandleSection
    \/ HandleChapter
    \/ Fallback
    \/ Return

SpecGroup == InitGroup /\ [][NextGroup]_vars

\* the chunks of the corpus in the section / chapter the analysis asks for
InGroup(d, an) ==
    /\ Truthy(an.section) => Str(d.section) = an.section
    /\ Truthy(an.chapter) => _normalize_chapter_id(Str(d.chapter)) = an.chapter

\* the article numbers of the group
GroupArticles(an) ==
    {IntOf(corpus[j].article) : j \in {h \in 1..Len(corpus) :
                                         InGroup(corpus[h], an) /\ IsNumeric(corpus[h].article)}}

\* the n lowest numbers of a set
RECURSIVE Lowest(_, _)
Lowest(S, n) ==
    IF n = 0 \/ S = {} THEN {}
    ELSE LET m == CHOOSE x \in S : \A y \in S : x <= y
         IN  {m} \cup Lowest(S \ {m}, n - 1)

\* C27: for a section, chapter or chapter+section lookup whose group holds
\* chunks of at least three distinct articles, the result before truncation
\* has the ARTICLE-level chunk of the lowest-numbered article first and holds
\* the chunks of the second and third lowest-numbered articles, no chunk
\* twice, however many subsection and point chunks each article has.
C27_FirstArticlePlusNextTwo ==
    (/\ pc = "Resolved"
     /\ analysis.query_type \in {"section_lookup", "chapter_lookup", "chapter_section_lookup"}
     /\ k >= Len(corpus)
     /\ Cardinality(GroupArticles(analysis)) >= 3
     /\ \E j \in 1..Len(corpus) :
           /\ InGroup(corpus[j], analysis) /\ corpus[j].level = "article"
           /\ IntOf(corpus[j].article) \in Lowest(GroupArticles(analysis), 1))
        => /\ docs # << >>
           /\ docs[1].level = "article"
           /\ IntOf(docs[1].article) \in Lowest(GroupArticles(analysis), 1)
           /\ \A j \in 1..Len(corpus) :
                 (InGroup(corpus[j], analysis)
                    /\ IntOf(corpus[j].article) \in Lowest(GroupArticles(analysis), 3))
                     => \E h \in 1..Len(docs) : docs[h] = corpus[j]
           /\ \A a, b \in 1..Len(docs) : docs[a].chunk_id = docs[b].chunk_id => a = b

----------------------------------------------------------------------------
(* A comparison query handled with the index answering.                    *)

InitCompare ==
    /\ corpus \in Corpora
    /\ query = Q_DifferenceDots
    /\ k \in 0..MaxK
    /\ index = "up"
    /\ pc = "Received"
    /\ analysis = NoAnalysis
    /\ docs = << >>
    /\ calls = << >>
    /\ lines = << >>
    /\ parser = NoParser
    /\ built = << >>
    /\ pending = NoPending
    /\ api = NoApi
    /\ norm = NoNorm

NextCompare == Analyze \/ HandleComparison \/ Fallback \/ Return

SpecCompare == InitCompare /\ [][NextCompare]_vars

\* C28: for a COMPARISON analysis whose extracted_concepts holds at least two
\* article numbers that both have chunks in the corpus, _handle_comparison
\* returns, for every k >= 2 and whatever the semantic retriever returned, a
\* list with at least one chunk of each of the first two articles: the
\* backfilled chunks survive deduplication and truncation to k.
C28_BothArticlesSurvive ==
    (/\ pc = "Dispatched" /\ analysis.query_type = "comparison"
     /\ Len(analysis.extracted_concepts) >= 2
     /\ EffK >= 2
     /\ HasArticleDoc(corpus, analysis.extracted_concepts[1])
     /\ HasArticleDoc(corpus, analysis.extracted_concepts[2]))
        => /\ HasArticleDoc(docs, analysis.extracted_concepts[1])
           /\ HasArticleDoc(docs, analysis.extracted_concepts[2])

----------------------------------------------------------------------------
(* ExactRetriever.retrieve_with_context running while                       *)
(* VectorStoreManager.update_vectorstore appends documents to the same      *)
(* vector store object.  The request is split at its index scans, the only  *)
(* places where it reads the store; the update appends its whole batch in   *)
(* one step.                                                                *)
(*   Scan1 -> Scan2 -> Scan3 -> CtxDone  (Scan2, Scan3 as the analysis asks)*)

\* the corpus before the update and the batch update_vectorstore is called with
UpdateInputs ==
    {[before |-> c, new |-> b, added |-> 0] :
        c \in {c \in Corpora : Len(c) <= MaxDocs - 1},
        b \in InjSeqs(Range(Universe), 1) \ {<< >>}}

InitConcurrent ==
    /\ pending \in {u \in UpdateInputs : Range(u.new) \cap Range(u.before) = {}}
    /\ corpus = pending.before
    /\ analysis \in ExactAnalyses
    /\ k \in 0..MaxK
    /\ index = "up"
    /\ pc = "Scan1"
    /\ query = Q_Other
    /\ docs = << >>
    /\ calls = << >>
    /\ lines = << >>
    /\ parser = NoParser
    /\ built = << >>
    /\ api = NoApi
    /\ norm = NoNorm

\* vectorstore.similarity_search("article recital", k=2000) as the request saw it
SearchCall(scan) ==
    [fn |-> "vectorstore.similarity_search", role |-> "scan", q |-> Q_Other,
     k |-> EXACT_SCAN_K, res |-> scan.docs, raised |-> ~scan.ok]

\* one retrieve call of retrieve_with_context: the exact match, the parent
\* subsection, the parent article; the last one deduplicates and cuts to k
CtxScan ==
    /\ pc \in {"Scan1", "Scan2", "Scan3"}
    /\ \E scan \in ScanOutcomes :
          LET sub_parent == [QueryAnalysis("exact_reference", analysis.original_query) EXCEPT
                               !.article = analysis.article,
                               !.subsection = analysis.subsection]
              art_parent == [QueryAnalysis("article_lookup", analysis.original_query) EXCEPT
                               !.article = analysis.article]
              an == IF pc = "Scan1" THEN analysis
                    ELSE IF pc = "Scan2" THEN sub_parent ELSE art_parent
              results == docs \o ExactRetrieve(scan, an, 1)
              next == IF pc = "Scan1" /\ Truthy(analysis.recital) THEN "CtxReturn"
                      ELSE IF pc = "Scan1" /\ Truthy(analysis.point)
                                /\ Truthy(analysis.subsection) THEN "Scan2"
                      ELSE IF pc \in {"Scan1", "Scan2"} /\ Truthy(analysis.subsection)
                           THEN "Scan3"
                      ELSE "CtxDedup"
          IN  /\ calls' = IF _build_metadata_filter(an) = {} THEN calls
                          ELSE Append(calls, SearchCall(scan))
              /\ docs' = IF next = "CtxDedup" THEN Take(DedupTruthyIds(results, {}), k)
                         ELSE results
              /\ pc' = IF next \in {"CtxReturn", "CtxDedup"} THEN "CtxDone" ELSE next
    /\ UNCHANGED <<query, k, corpus, analysis, lines, parser, built, envVars>>

\* update_vectorstore: vectorstore.add_documents(new_documents) on the store
\* object the retrievers read
UpdateVectorstore ==
    /\ pc \in {"Scan1", "Scan2", "Scan3", "CtxDone"}
    /\ pending.added < Len(pending.new)
    /\ corpus' = corpus \o pending.new
    /\ pending' = [pending EXCEPT !.added = Len(pending.new)]
    /\ UNCHANGED <<query, k, pc, analysis, docs, calls, lines, parser, built,
                   index, api, norm>>

NextConcurrent == CtxScan \/ UpdateVectorstore

SpecConcurrent == InitConcurrent /\ [][NextConcurrent]_vars

\* C15: a request running concurrently with a corpus update sees, in all its
\* corpus scans, either the corpus before the update or the corpus after the
\* whole update, and never different versions in two scans of the request.
C15_SnapshotIsolation ==
    /\ \A i \in 1..Len(calls) :
          calls[i].res \in {pending.before, pending.before \o pending.new}
    /\ \A i, j \in 1..Len(calls) : calls[i].res = calls[j].res

----------------------------------------------------------------------------
(* The API process: the lifespan (startup) and the /chat endpoint.          *)
(*   Starting -> Loaded -> Scanning -> Ingested -> StoreReady -> Serving    *)
(*   Starting -> StoreReady (an index is found on disk)                     *)
(*   IngestFailed, StartupFailed: the lifespan raised RuntimeError          *)
(* A request text is [len, stripped]: its length and its length after       *)
(* strip().                                                                 *)

MAX_QUERY_LENGTH == 2000
MAX_SESSION_ID_LENGTH == 100

Text(len, stripped) == [len |-> len, stripped |-> stripped]

Request(q, session_id) == [query |-> q, session_id |-> session_id]

\* query: empty, blanks only, plain, padded, too long; session_id: the
\* default "default_session", empty, plain, too long
Requests ==
    {Request(q, sid) :
        q \in {Text(0, 0), Text(3, 0), Text(36, 36), Text(38, 36),
               Text(MAX_QUERY_LENGTH, MAX_QUERY_LENGTH),
               Text(MAX_QUERY_LENGTH + 1, MAX_QUERY_LENGTH + 1)},
        sid \in {Text(15, 15), Text(0, 0), Text(9, 9),
                 Text(MAX_SESSION_ID_LENGTH + 1, MAX_SESSION_ID_LENGTH + 1)}}

\* ChatRequest: the Field constraints on the raw values, then validate_query
\* on the query (strip, ValueError when nothing is left)
ChatRequestValid(r) ==
    /\ r.query.len >= 1 /\ r.query.len <= MAX_QUERY_LENGTH
    /\ r.session_id.len >= 1 /\ r.session_id.len <= MAX_SESSION_ID_LENGTH
    /\ r.query.stripped > 0

\* the lines a source PDF of the API run is made of
ApiSourceLines ==
    {Line("recital", "1", 24), Line("article", "1", 9), Line("text", "t", 20),
     Line("adopted", "HAVE ADOPTED THIS REGULATION", 30)}

InitApi ==
    /\ api = Api("starting", FALSE)
    /\ lines \in SeqsUpTo(ApiSourceLines, MaxLines)
    /\ pc = "Starting"
    /\ parser = NoParser
    /\ built = << >>
    /\ query = << >>
    /\ k = 0
    /\ corpus = << >>
    /\ analysis = NoAnalysis
    /\ docs = << >>
    /\ calls = << >>
    /\ index = "flaky"
    /\ pending = NoPending
    /\ norm = NoNorm

apiOther == <<query, k, corpus, analysis, docs, calls, lines, parser, built,
              index, pending, norm>>

\* the except block of the lifespan treating the error as logged and done
lifespan_except_Swallow(a) == [a EXCEPT !.startup = "up"]

\* the except block of the lifespan: log, raise RuntimeError
lifespan_except(a) == [a EXCEPT !.startup = "failed"]

\* VectorStoreManager() and get_vectorstore(): an index on disk is loaded;
\* none found, or one that fails to load, gives None and ingestion runs
LoadStore ==
    /\ pc = "Starting"
    /\ \E outcome \in {"found", "none", "manager_raises"} :
          CASE outcome = "found" ->
                 pc' = "StoreReady" /\ api' = [api EXCEPT !.store_found = TRUE]
            [] outcome = "none" ->
                 pc' = "Loaded" /\ UNCHANGED api
            [] OTHER ->
                 pc' = "StartupFailed" /\ api' = lifespan_except(api)
    /\ UNCHANGED apiOther

\* parse_document: load_pdf fails with ParsingError
LoadPdfFail ==
    /\ pc = "Loaded" /\ api.startup = "starting"
    /\ pc' = "IngestFailed"
    /\ UNCHANGED <<api, apiOther>>

\* ingestion.run() raised DataIngestionError inside the lifespan's try
LifespanIngestionFailed ==
    /\ pc = "IngestFailed" /\ api.startup = "starting"
    /\ api' = lifespan_except(api)
    /\ UNCHANGED <<pc, apiOther>>

\* vectorstore_manager.create_vectorstore(documents): the index is built and
\* saved, or VectorStoreError
CreateVectorstore ==
    /\ pc = "Ingested" /\ api.startup = "starting"
    /\ \E ok \in BOOLEAN :
          IF ok
          THEN /\ pc' = "StoreReady"
               /\ api' = [api EXCEPT !.create_calls = @ + 1, !.saved = @ + 1]
          ELSE /\ pc' = "StartupFailed"
               /\ api' = lifespan_except([api EXCEPT !.create_calls = @ + 1])
    /\ UNCHANGED apiOther

\* engine = RAGEngine(vectorstore), then the application starts serving
InitEngine ==
    /\ pc = "StoreReady"
    /\ \E ok \in BOOLEAN :
          IF ok
          THEN pc' = "Serving" /\ api' = [api EXCEPT !.engine = TRUE, !.startup = "up"]
          ELSE pc' = "StartupFailed" /\ api' = lifespan_except(api)
    /\ UNCHANGED apiOther

\* POST /chat arrives (after a failed startup too: the module's globals are
\* what the lifespan left)
ReceiveRequest ==
    /\ api.startup \in {"up", "failed"} /\ api.request = NoRequest
    /\ \E r \in Requests : api' = [api EXCEPT !.request = r]
    /\ UNCHANGED <<pc, apiOther>>

\* the body is validated against ChatRequest before chat_endpoint runs: a
\* body that fails gets the framework's 422 answer with a "detail" field
\* (api.py registers no handler of its own for validation errors)
ValidateRequest ==
    /\ api.request # NoRequest /\ api.status = 0
    /\ ~ChatRequestValid(api.request)
    /\ api' = [api EXCEPT !.status = 422, !.detail = TRUE]
    /\ UNCHANGED <<pc, apiOther>>

\* chat_endpoint: 503 without engine; else the chain runs: 200, 400 on a
\* ValueError, 500 on any other exception
ChatEndpoint ==
    /\ api.request # NoRequest /\ api.status = 0
    /\ ChatRequestValid(api.request)
    /\ IF ~api.engine
       THEN api' = [api EXCEPT !.status = 503, !.detail = TRUE]
       ELSE \E outcome \in {"answer", "ValueError", "Exception"} :
              api' = [api EXCEPT
                        !.chain_calls = @ + 1,
                        !.status = CASE outcome = "answer" -> 200
                                     [] outcome = "ValueError" -> 400
                                     [] OTHER -> 500,
                        !.detail = outcome # "answer"]
    /\ UNCHANGED <<pc, apiOther>>

NextApi ==
    \/ LoadStore
    \/ LoadPdfFail
    \/ StartScan
    \/ ScanLine
    \/ FinishIngest
    \/ LifespanIngestionFailed
    \/ CreateVectorstore
    \/ InitEngine
    \/ ReceiveRequest
    \/ ValidateRequest
    \/ ChatEndpoint

SpecApi == InitApi /\ [][NextApi]_vars

\* C16: POST /chat with an empty query string is rejected with status 400 and
\* a body holding a "detail" field; it is never answered with 500 and never
\* reaches the retrieval chain.
C16_EmptyQueryRejected ==
    (api.status # 0 /\ api.request.query = Text(0, 0)) =>
        /\ api.status = 400
        /\ api.detail
        /\ api.chain_calls = 0

\* C17: when the ingestion run fails at startup the failure is reported
\* upward and no corpus is published: create_vectorstore is not called, no
\* index is saved, the engine stays uninitialised, and a /chat request is
\* answered 503 (or refused as invalid), never from a chain.
C17_NoCorpusOnIngestionFailure ==
    pc = "IngestFailed" =>
        /\ api.startup \in {"starting", "failed"}
        /\ api.create_calls = 0 /\ api.saved = 0
        /\ ~api.engine
        /\ api.chain_calls = 0
        /\ api.status \in {0, 422, 503}

\* ingestion failed on an article, startup failed, a valid request got 503
C17_Witness ==
    /\ pc = "IngestFailed" /\ api.startup = "failed"
    /\ parser.structures # << >>
    /\ api.status = 503

----------------------------------------------------------------------------
(* QueryAnalyzer.analyze on its own, over every query of the phrase set *)

Phrases ==
    {Word("difference between"), Word("what is"), Word("show"), Word("which article"),
     Word("and"), Chap("4"), Chap("IV"), Sec("3"), Rec("42"),
     Art("6"), ArtDangling("6"), ArtDotSub("6", "1"), ArtParSub("6", "1"),
     ArtDotFull("6", "1", "a"), ArtParFull("6", "1", "a"), Art("7"), ArtDangling("7")}

AnalyzerQueries == SeqsUpTo(Phrases, MaxQueryLen) \cup RouterQueries

InitAnalyze ==
    /\ query \in AnalyzerQueries
    /\ pc = "Received"
    /\ analysis = NoAnalysis
    /\ k = 0
    /\ corpus = << >>
    /\ docs = << >>
    /\ calls = << >>
    /\ lines = << >>
    /\ parser = NoParser
    /\ built = << >>
    /\ index = "flaky"
    /\ pending = NoPending
    /\ api = NoApi
    /\ norm = NoNorm

NextAnalyze == Analyze

SpecAnalyze == InitAnalyze /\ [][NextAnalyze]_vars

HasPhrase(q, t) == \E j \in 1..Len(q) : q[j].t = t
HasArticleForm(q, forms) == \E j \in 1..Len(q) : q[j].t = "article" /\ q[j].form \in forms
HasKeyword(q, keywords) == QueryKeywords(q) \cap keywords # {}

\* the ten checks, in the order of the claim: <<matches, query_type, confidence>>
Checks(q) ==
    <<  <<\E j \in 1..(Len(q) - 1) : q[j].t = "chapter" /\ q[j + 1].t = "section",
          "chapter_section_lookup", 95>>,
        <<HasPhrase(q, "section") /\ HasKeyword(q, section_indicators), "section_lookup", 95>>,
        <<HasPhrase(q, "chapter") /\ HasKeyword(q, chapter_indicators), "chapter_lookup", 95>>,
        <<HasPhrase(q, "recital"), "recital_lookup", 95>>,
        <<HasArticleForm(q, {"dotfull", "parfull"}), "exact_reference", 95>>,
        <<HasArticleForm(q, {"dotsub", "dotfull", "parsub", "parfull"}), "exact_reference", 90>>,
        <<HasArticleForm(q, {"bare"}) /\ HasKeyword(q, lookup_phrases), "article_lookup", 85>>,
        <<HasArticleForm(q, {"bare"}), "conceptual", 70>>,
        <<HasKeyword(q, comparison_keywords), "comparison", 80>>,
        <<HasKeyword(q, conceptual_keywords), "conceptual", 70>>,
        <<TRUE, "general", 50>>  >>

FirstMatch(q) ==
    LET c == Checks(q)
        j == CHOOSE n \in 1..Len(c) : c[n][1] /\ \A m \in 1..(n - 1) : ~c[m][1]
    IN  c[j]

====
